---- MODULE Spec2Model ----
(***************************************************************************)
(* Genealogy graph logic of AnestoryAI: the Cycle Guard                    *)
(* (hasCircularReference), the Relationship Classifier                     *)
(* (calculateRelationship), the Tree Builder (rootAncestor / buildTree,    *)
(* and renderTree of the 3D view), the Anomaly & Quality Scanner           *)
(* (findLocalAnomalies, findPotentialDuplicates), the Statistics           *)
(* Aggregator (calculateStats, calculateCompleteness) and the write paths  *)
(* of the application (ancestor form, analytics update, delete) on the     *)
(* two storage modules.                                                    *)
(***************************************************************************)
EXTENDS Integers, Sequences, FiniteSets, TLC

(***************************************************************************)
(* Bounds of the model.                                                    *)
(***************************************************************************)
\* Largest number of person records in a list; ids are 1..MaxPersons.
MaxPersons == 3

(***************************************************************************)
(* Data model (types.ts).                                                  *)
(***************************************************************************)
\* null / '' of a fatherId or motherId: every falsy id.
Null == 0

\* null (or 0) of a birthYear: every falsy year.
NoYear == 0

Ids == 1..MaxPersons

RefIds == Ids \cup {Null}

Gender == {"Male", "Female", "Unknown"}

\* Years a record may carry; NoYear is "not recorded".
Years == {NoYear, 1900, 1950}

\* An Ancestor record, reduced to the fields the graph logic reads.
Ancestor(i, f, m, g, y) ==
    [id |-> i, fatherId |-> f, motherId |-> m, gender |-> g, birthYear |-> y]

\* ids of the records of a list, and their uniqueness
IdsOf(list) == {list[i].id : i \in DOMAIN list}

UniqueIds(list) == \A i, j \in DOMAIN list : list[i].id = list[j].id => i = j

\* new Map(); ancestors.forEach(a => map.set(a.id, a)); map.has(id)
MapHas(list, id) == \E i \in DOMAIN list : list[i].id = id

\* map.get(id): the last record set under that id
MapGet(list, id) ==
    list[CHOOSE i \in DOMAIN list :
            /\ list[i].id = id
            /\ \A j \in DOMAIN list : list[j].id = id => j <= i]

\* [x.fatherId, x.motherId].filter(Boolean)
Parents(rec) ==
    (IF rec.fatherId # Null THEN <<rec.fatherId>> ELSE <<>>)
        \o (IF rec.motherId # Null THEN <<rec.motherId>> ELSE <<>>)

SeqToSet(s) == {s[i] : i \in DOMAIN s}

(***************************************************************************)
(* The state.                                                              *)
(***************************************************************************)
VARIABLES
    ancestors,   \* the person list: the store, or the snapshot handed to a function
    gpc,         \* Cycle Guard: position in hasCircularReference
    personId,    \* Cycle Guard: the subject
    proposedParentId, \* Cycle Guard: the proposed parent
    queue,       \* Cycle Guard: the BFS queue
    visited,     \* Cycle Guard: the visited set
    gResult,     \* Cycle Guard: the returned value, once gpc = "done"
    expandLog,   \* history: the ids that passed the visited check, in order
    view,        \* Tree Builder: which TreeVisualization builds the tree
    tpc,         \* Tree Builder: position in the data preparation
    rootId,      \* Tree Builder: id of rootAncestor (Null while there is none)
    stack,       \* Tree Builder: the active buildTree calls, innermost last
    treeNodes,   \* Tree Builder: the nodes created so far, in call order
    rpc,         \* Relationship Classifier: which of the two calls have returned
    personAId,   \* Relationship Classifier: first id given
    personBId,   \* Relationship Classifier: second id given
    relAB,       \* outcome of calculateRelationship(ancestors, personAId, personBId)
    relBA,       \* outcome of calculateRelationship(ancestors, personBId, personAId)
    issued,      \* application: how many record ids (uuid) have been generated
    isAdmin,     \* application: the session may write (isReadOnly is its negation)
    formError,   \* application: the ancestor form shows its circular-reference error
    parentWrites, \* history: the <<record, new parent>> links the last handler wrote
    guardCalls,  \* history: the <<subject, parent>> pairs the last handler's
                 \* Cycle Guard calls returned false for
    backend,     \* application: which StorageService the build carries
    apc,         \* analytics: position of the call at hand ("off" when none runs)
    currentYear, \* analytics: new Date().getFullYear() of the call
    anomalies,   \* analytics: what findLocalAnomalies returned
    groups,      \* analytics: what findPotentialDuplicates returned
    stats,       \* analytics: what calculateStats returned
    scores,      \* analytics: calculateCompleteness of each record, in list order
    lifespanData, \* analytics: what getLifespanDistribution returned
    snapshot,    \* history: the list as it was handed to the call at hand
    roots,       \* 3D view: the roots renderTree starts from
    generationMap, \* 3D view: renderTree's generation of each id
    showForm,    \* session: the ancestor form is open
    editingId,   \* session: the record the open form edits (Null: a new record)
    form,        \* session: the parent selects of the open form
    showImportWizard, \* session: the import wizard is open
    lastCall,    \* history: the StorageService call the last handler made
    clientView,  \* clients: the snapshot each client received last
    listeners,   \* local storage module: the subscribed callbacks, in order
    issuedCallbacks, \* local storage module: how many callbacks were created
    calls,       \* history: the <<callback, list>> invocations of the last call
    unsubscribed, \* history: the callbacks whose unsubscribe function was called
    importStore, \* localStorage: what is stored under 'ancestry_app_data'
    seedPc       \* seeding: position of each checkAndSeed invocation

guardVars == <<gpc, personId, proposedParentId, queue, visited, gResult, expandLog>>

treeVars == <<view, tpc, rootId, stack, treeNodes>>

relVars == <<rpc, personAId, personBId, relAB, relBA>>

appVars == <<issued, isAdmin, formError, parentWrites, guardCalls>>

anaVars == <<backend, apc, currentYear, anomalies, groups, stats, scores, lifespanData, snapshot,
             roots, generationMap>>

sesVars == <<showForm, editingId, form, showImportWizard, lastCall, clientView, listeners,
             issuedCallbacks, calls, unsubscribed, importStore, seedPc>>

vars == <<ancestors, guardVars, treeVars, relVars, appVars, anaVars, sesVars>>

\* A component that is not running in the specification at hand.
GuardOff ==
    /\ gpc = "off"
    /\ personId = Null
    /\ proposedParentId = Null
    /\ queue = <<>>
    /\ visited = {}
    /\ gResult = FALSE
    /\ expandLog = <<>>

TreeOff ==
    /\ view = "none"
    /\ tpc = "off"
    /\ rootId = Null
    /\ stack = <<>>
    /\ treeNodes = <<>>

RelOff ==
    /\ rpc = {}
    /\ personAId = Null
    /\ personBId = Null
    /\ relAB = "none"
    /\ relBA = "none"

AppOff ==
    /\ issued = Len(ancestors)
    /\ isAdmin = FALSE
    /\ formError = FALSE
    /\ parentWrites = {}
    /\ guardCalls = {}

AnaOff ==
    /\ backend = "local"
    /\ apc = "off"
    /\ currentYear = 0
    /\ anomalies = <<>>
    /\ groups = <<>>
    /\ stats = <<>>
    /\ scores = <<>>
    /\ lifespanData = <<>>
    /\ snapshot = <<>>
    /\ roots = <<>>
    /\ generationMap = <<>>

initialForm == [fatherId |-> Null, motherId |-> Null]

SesOff ==
    /\ showForm = FALSE
    /\ editingId = Null
    /\ form = initialForm
    /\ showImportWizard = FALSE
    /\ lastCall = "none"
    /\ clientView = <<>>
    /\ listeners = <<>>
    /\ issuedCallbacks = 0
    /\ calls = <<>>
    /\ unsubscribed = {}
    /\ importStore = <<>>
    /\ seedPc = <<>>

(***************************************************************************)
(* Cycle Guard: hasCircularReference.                                      *)
(***************************************************************************)
\* The visited check of the loop: if (visited.has(currentId)) continue;
AlreadyVisitedNoCheck(vis, currentId) == FALSE

AlreadyVisited(vis, currentId) == currentId \in vis

\* What one expanded record pushes: its fatherId, then its motherId.
PushedLinksFatherOnly(list, currentId) ==
    IF MapHas(list, currentId)
    THEN LET p == MapGet(list, currentId)
         IN  IF p.fatherId # Null THEN <<p.fatherId>> ELSE <<>>
    ELSE <<>>

\* the ids of the records that name currentId as father or mother
PushedLinksDownward(list, currentId) ==
    LET RECURSIVE Down(_)
        Down(i) ==
            IF i > Len(list) THEN <<>>
            ELSE (IF list[i].fatherId = currentId \/ list[i].motherId = currentId
                  THEN <<list[i].id>> ELSE <<>>) \o Down(i + 1)
    IN  Down(1)

PushedLinks(list, currentId) ==
    IF MapHas(list, currentId) THEN Parents(MapGet(list, currentId)) ELSE <<>>

\* One iteration of the while loop on a non-empty queue.  ret is "true" when
\* the iteration returns true, "none" when the loop goes on.
GuardIterate(list, subject, q, vis) ==
    LET currentId == Head(q)
        rest == Tail(q)
    IN  IF AlreadyVisited(vis, currentId)
        THEN [queue |-> rest, visited |-> vis, ret |-> "none", expanded |-> <<>>]
        ELSE IF currentId = subject
             THEN [queue |-> rest, visited |-> vis \cup {currentId},
                   ret |-> "true", expanded |-> <<currentId>>]
             ELSE [queue |-> rest \o PushedLinks(list, currentId),
                   visited |-> vis \cup {currentId},
                   ret |-> "none", expanded |-> <<currentId>>]

RECURSIVE GuardLoop(_, _, _, _)
GuardLoop(list, subject, q, vis) ==
    IF q = <<>> THEN FALSE
    ELSE LET s == GuardIterate(list, subject, q, vis)
         IN  IF s.ret = "true" THEN TRUE
             ELSE GuardLoop(list, subject, s.queue, s.visited)

\* hasCircularReference(ancestors, personId, proposedParentId), run to its end
hasCircularReference(list, subject, parent) ==
    IF parent = Null THEN FALSE
    ELSE IF subject = parent THEN TRUE
    ELSE GuardLoop(list, subject, <<parent>>, {})

\* The same function, one step at a time.
GuardEnter ==
    /\ gpc = "call"
    /\ IF proposedParentId = Null
       THEN gpc' = "done" /\ gResult' = FALSE /\ queue' = <<>>
       ELSE IF personId = proposedParentId
            THEN gpc' = "done" /\ gResult' = TRUE /\ queue' = <<>>
            ELSE gpc' = "loop" /\ gResult' = FALSE /\ queue' = <<proposedParentId>>
    /\ visited' = {}
    /\ expandLog' = <<>>
    /\ UNCHANGED <<ancestors, personId, proposedParentId, treeVars, relVars, appVars, anaVars, sesVars>>

GuardStep ==
    /\ gpc = "loop"
    /\ queue # <<>>
    /\ LET s == GuardIterate(ancestors, personId, queue, visited)
       IN  /\ queue' = s.queue
           /\ visited' = s.visited
           /\ expandLog' = expandLog \o s.expanded
           /\ IF s.ret = "true"
              THEN gpc' = "done" /\ gResult' = TRUE
              ELSE gpc' = "loop" /\ gResult' = FALSE
    /\ UNCHANGED <<ancestors, personId, proposedParentId, treeVars, relVars, appVars, anaVars, sesVars>>

GuardExit ==
    /\ gpc = "loop"
    /\ queue = <<>>
    /\ gpc' = "done"
    /\ gResult' = FALSE
    /\ UNCHANGED <<ancestors, personId, proposedParentId, queue, visited, expandLog, treeVars, relVars, appVars, anaVars, sesVars>>

(***************************************************************************)
(* Person lists handed to the pure functions.  Ids are unique (uuid /      *)
(* document ids) and the functions compare ids for equality only, so the   *)
(* record at position i carries id i.  A parent reference to an id beyond  *)
(* the length of the list is dangling; cycles and self-references are      *)
(* included (corrupt data).                                                *)
(***************************************************************************)
GraphList(list) ==
    \E n \in 0..MaxPersons :
        \E fm \in [1..n -> RefIds \X RefIds] :
            list = [i \in 1..n |-> Ancestor(i, fm[i][1], fm[i][2], "Unknown", NoYear)]

InitGuard ==
    /\ GraphList(ancestors)
    /\ personId \in Ids
    /\ proposedParentId \in RefIds
    /\ gpc = "call"
    /\ queue = <<>>
    /\ visited = {}
    /\ gResult = FALSE
    /\ expandLog = <<>>
    /\ TreeOff
    /\ RelOff
    /\ AppOff
    /\ AnaOff
    /\ SesOff

NextGuard == GuardEnter \/ GuardStep \/ GuardExit

\* One call of the Cycle Guard on every list and every pair of ids; the
\* event loop runs the synchronous call to completion.
SpecGuard == InitGuard /\ [][NextGuard]_vars /\ WF_vars(NextGuard)

(***************************************************************************)
(* Tree Builder: rootAncestor and buildTree of the two TreeVisualization   *)
(* components ("first": TreeVisualization.tsx lines 13-537, "second":      *)
(* lines 571-997).                                                         *)
(***************************************************************************)
\* Deepest nesting of buildTree calls the model follows before the engine's
\* call stack is taken to be exhausted (RangeError).
StackLimit == 5

\* (a.birthYear || 9999): the sort key of a record without a birth year
NoBirthSortKey == 9999

Views == {"first", "second"}

\* ancestors.filter(a => !a.fatherId && !a.motherId)
potentialRoots(list) ==
    SelectSeq(list, LAMBDA a : a.fatherId = Null /\ a.motherId = Null)

AgeKey(a) == IF a.birthYear = NoYear THEN NoBirthSortKey ELSE a.birthYear

\* Array.prototype.sort with (a, b) => key(a) - key(b): a stable sort
RECURSIVE InsertByAge(_, _)
InsertByAge(sorted, a) ==
    IF sorted = <<>> THEN <<a>>
    ELSE IF AgeKey(Head(sorted)) <= AgeKey(a)
         THEN <<Head(sorted)>> \o InsertByAge(Tail(sorted), a)
         ELSE <<a>> \o sorted

RECURSIVE sortedByAge(_)
sortedByAge(list) ==
    IF list = <<>> THEN <<>>
    ELSE InsertByAge(sortedByAge(SubSeq(list, 1, Len(list) - 1)), list[Len(list)])

\* second view: roots.length > 0 ? roots[0] : ancestors[0]
rootAncestorSecond(list) ==
    IF potentialRoots(list) # <<>> THEN potentialRoots(list)[1] ELSE list[1]

\* first view: potentialRoots[0] || sortedByAge[0]
rootAncestorFirst(list) ==
    IF potentialRoots(list) # <<>> THEN potentialRoots(list)[1] ELSE sortedByAge(list)[1]

\* rootAncestor of a non-empty list, as the view at hand computes it
rootAncestor(v, list) ==
    IF v = "first" THEN rootAncestorFirst(list) ELSE rootAncestorSecond(list)

\* ancestors.find(a => a.id === personId) finds a record
FindHas(list, id) == \E i \in DOMAIN list : list[i].id = id

\* the ids of ancestors.filter(a => a.fatherId === personId || a.motherId === personId),
\* in list order; the mutated form also takes the person itself
RECURSIVE ChildrenFrom(_, _, _)
ChildrenFrom(list, id, i) ==
    IF i > Len(list) THEN <<>>
    ELSE (IF list[i].fatherId = id \/ list[i].motherId = id
          THEN <<list[i].id>> ELSE <<>>) \o ChildrenFrom(list, id, i + 1)

\* the children by the fatherId link alone
ChildrenOfFatherOnly(list, id) ==
    LET kids == SelectSeq(list, LAMBDA a : a.fatherId = id)
    IN  [i \in DOMAIN kids |-> kids[i].id]

ChildrenOfOrSelf(list, id) == <<id>> \o ChildrenFrom(list, id, 1)

ChildrenOf(list, id) == ChildrenFrom(list, id, 1)

\* The frame of one buildTree(personId) call: the children still to be built.
Frame(list, id) == [id |-> id, todo |-> ChildrenOf(list, id)]

\* Data preparation: pick rootAncestor; return when there is none, otherwise
\* call buildTree(rootAncestor.id).
TreeStart ==
    /\ tpc = "call"
    /\ IF ancestors = <<>>
       THEN /\ tpc' = "done"
            /\ UNCHANGED <<rootId, stack, treeNodes>>
       ELSE LET r == rootAncestor(view, ancestors)
            IN  /\ rootId' = r.id
                /\ stack' = <<Frame(ancestors, r.id)>>
                /\ treeNodes' = <<[id |-> r.id, depth |-> 1]>>
                /\ tpc' = "build"
    /\ UNCHANGED <<ancestors, view, guardVars, relVars, appVars, anaVars, sesVars>>

\* .map(child => buildTree(child.id)): the innermost call builds its next child.
BuildCall ==
    /\ tpc = "build"
    /\ stack # <<>>
    /\ stack[Len(stack)].todo # <<>>
    /\ LET top == stack[Len(stack)]
           child == Head(top.todo)
           popped == [stack EXCEPT ![Len(stack)].todo = Tail(top.todo)]
       IN  IF Len(stack) >= StackLimit
           THEN /\ tpc' = "overflow"
                /\ UNCHANGED <<stack, treeNodes>>
           ELSE IF ~FindHas(ancestors, child)
                THEN /\ stack' = popped
                     /\ UNCHANGED <<tpc, treeNodes>>
                ELSE /\ stack' = Append(popped, Frame(ancestors, child))
                     /\ treeNodes' = Append(treeNodes,
                                            [id |-> child, depth |-> Len(stack) + 1])
                     /\ tpc' = "build"
    /\ UNCHANGED <<ancestors, view, rootId, guardVars, relVars, appVars, anaVars, sesVars>>

\* The innermost call has built all its children and returns its node.
BuildReturn ==
    /\ tpc = "build"
    /\ stack # <<>>
    /\ stack[Len(stack)].todo = <<>>
    /\ stack' = SubSeq(stack, 1, Len(stack) - 1)
    /\ tpc' = IF Len(stack) = 1 THEN "done" ELSE "build"
    /\ UNCHANGED <<ancestors, view, rootId, treeNodes, guardVars, relVars, appVars, anaVars, sesVars>>

InitTree ==
    /\ GraphList(ancestors)
    /\ view \in Views
    /\ tpc = "call"
    /\ rootId = Null
    /\ stack = <<>>
    /\ treeNodes = <<>>
    /\ GuardOff
    /\ RelOff
    /\ AppOff
    /\ AnaOff
    /\ SesOff

NextTree == TreeStart \/ BuildCall \/ BuildReturn

\* One run of the data preparation on every list, in either view; the
\* synchronous effect runs to completion.
SpecTree == InitTree /\ [][NextTree]_vars /\ WF_vars(NextTree)

\* Lists whose records carry birth years, for the choice of the root.
YearList(list) ==
    \E n \in 0..MaxPersons :
        \E fm \in [1..n -> RefIds \X RefIds \X Years] :
            list = [i \in 1..n |-> Ancestor(i, fm[i][1], fm[i][2], "Unknown", fm[i][3])]

InitRoot ==
    /\ YearList(ancestors)
    /\ view \in Views
    /\ tpc = "call"
    /\ rootId = Null
    /\ stack = <<>>
    /\ treeNodes = <<>>
    /\ GuardOff
    /\ RelOff
    /\ AppOff
    /\ AnaOff
    /\ SesOff

\* The choice of the root on every list with birth years, in either view.
SpecRoot == InitRoot /\ [][TreeStart]_vars

(***************************************************************************)
(* Relationship Classifier: calculateRelationship.                         *)
(***************************************************************************)
\* The labels the function can return.
RelSelf == "Self"
RelUnknown == "Unknown"
RelChildOf == "Child of selected"
RelParentOf == "Parent of selected"
RelFull == "Full Sibling"
RelHalf == "Half Sibling"
RelCousin == "First Cousin"
RelChild == "Child"
RelGrandchildOf == "Grandchild of selected"
RelGrandparentOf == "Grandparent of selected"
RelDistant == "Distant Relative or No Relation Found (Basic Search)"

\* The call did not return: the recursion exhausted the call stack and the
\* RangeError propagated to the caller.
RangeError == "RangeError"

\* label.includes("Sibling")
IncludesSibling(label) == label \in {RelFull, RelHalf}

\* rec.fatherId === id || rec.motherId === id; the mutated form forgets the mother
IsParentLinkFatherOnly(rec, id) == rec.fatherId = id

IsParentLink(rec, id) == rec.fatherId = id \/ rec.motherId = id

\* all pairs <<pA, pB>> in the order of the nested for loops
PairsOf(parentsA, parentsB) ==
    LET RECURSIVE Rows(_)
        Rows(i) ==
            IF i > Len(parentsA) THEN <<>>
            ELSE [j \in 1..Len(parentsB) |-> <<parentsA[i], parentsB[j]>>] \o Rows(i + 1)
    IN  Rows(1)

\* some parent of the list is a record that names id as father or mother
HasParentWithParent(list, parents, id) ==
    \E k \in DOMAIN parents :
        /\ MapHas(list, parents[k])
        /\ LET parentNode == MapGet(list, parents[k])
           IN  parentNode.fatherId = id \/ parentNode.motherId = id

RECURSIVE CalcRel(_, _, _, _)
RECURSIVE CousinScan(_, _, _)

\* The nested loops of the cousin check over the remaining pairs: "cousin"
\* when a pair classifies as siblings, "none" when no pair does.
CousinScan(list, pairs, depth) ==
    IF pairs = <<>> THEN "none"
    ELSE LET r == CalcRel(list, pairs[1][1], pairs[1][2], depth + 1)
         IN  IF r = RangeError THEN RangeError
             ELSE IF IncludesSibling(r) THEN "cousin"
             ELSE CousinScan(list, Tail(pairs), depth)

\* calculateRelationship at nesting depth `depth` of its own recursion
CalcRel(list, a, b, depth) ==
    IF depth > StackLimit THEN RangeError
    ELSE IF a = b THEN RelSelf
    ELSE IF ~MapHas(list, a) \/ ~MapHas(list, b) THEN RelUnknown
    ELSE
      LET personA == MapGet(list, a)
          personB == MapGet(list, b)
          shareFather == personA.fatherId # Null /\ personA.fatherId = personB.fatherId
          shareMother == personA.motherId # Null /\ personA.motherId = personB.motherId
          parentsA == Parents(personA)
          parentsB == Parents(personB)
      IN  IF IsParentLink(personA, b) THEN RelChildOf
          ELSE IF IsParentLink(personB, a) THEN RelParentOf
          ELSE IF shareFather /\ shareMother THEN RelFull
          ELSE IF shareFather \/ shareMother THEN RelHalf
          ELSE LET c == CousinScan(list, PairsOf(parentsA, parentsB), depth)
               IN  IF c = RangeError THEN RangeError
                   ELSE IF c = "cousin" THEN RelCousin
                   ELSE IF b \in SeqToSet(parentsA) THEN RelChild
                   ELSE IF HasParentWithParent(list, parentsA, b) THEN RelGrandchildOf
                   ELSE IF HasParentWithParent(list, parentsB, a) THEN RelGrandparentOf
                   ELSE RelDistant

calculateRelationship(list, a, b) == CalcRel(list, a, b, 1)

\* The calculator is asked about (A, B) ...
Classify ==
    /\ "AB" \notin rpc
    /\ personAId # Null
    /\ relAB' = calculateRelationship(ancestors, personAId, personBId)
    /\ rpc' = rpc \cup {"AB"}
    /\ UNCHANGED <<ancestors, personAId, personBId, relBA, guardVars, treeVars, appVars, anaVars, sesVars>>

\* ... and about (B, A).
ClassifySwapped ==
    /\ "BA" \notin rpc
    /\ personAId # Null
    /\ relBA' = calculateRelationship(ancestors, personBId, personAId)
    /\ rpc' = rpc \cup {"BA"}
    /\ UNCHANGED <<ancestors, personAId, personBId, relAB, guardVars, treeVars, appVars, anaVars, sesVars>>

InitRel ==
    /\ GraphList(ancestors)
    /\ personAId \in Ids
    /\ personBId \in Ids
    /\ rpc = {}
    /\ relAB = "none"
    /\ relBA = "none"
    /\ GuardOff
    /\ TreeOff
    /\ AppOff
    /\ AnaOff
    /\ SesOff

NextRel == Classify \/ ClassifySwapped

\* Both orders of every pair of ids, on every list.
SpecRel == InitRel /\ [][NextRel]_vars

(***************************************************************************)
(* The application's write paths (App.tsx, AncestorForm, AnalyticsDashboard, *)
(* StorageService on browser local storage).  `ancestors` is the stored    *)
(* list, which the single client's subscription hands back after each      *)
(* write.                                                                  *)
(***************************************************************************)
\* Values the form's gender field is given when every write path is in play.
\* An "Unknown" person is offered by the father select and by the mother
\* select, so this value alone yields every parent graph the form can write.
AppGenders == {"Unknown"}

\* Fields an applied prediction may name (pred.field comes from the AI
\* response as a free string): the two that bear on the parent graph.
PredictedFields == {"fatherId", "motherId"}

\* [newAncestor, ...ancestors]
StorageAdd(list, rec) == <<rec>> \o list

\* ancestors[index] = { ...ancestors[index], ...updates } at the first index
\* with that id; nothing when there is none
StorageUpdate(list, id, updates) ==
    [i \in DOMAIN list |->
        IF list[i].id = id /\ \A j \in 1..(i - 1) : list[j].id # id
        THEN [k \in DOMAIN list[i] |->
                 IF k \in DOMAIN updates THEN updates[k] ELSE list[i][k]]
        ELSE list[i]]

\* a delete that also clears the references to the deleted record
StorageDeleteCascade(list, id) ==
    LET kept == SelectSeq(list, LAMBDA a : a.id # id)
    IN  [i \in DOMAIN kept |->
            [kept[i] EXCEPT !.fatherId = IF @ = id THEN Null ELSE @,
                            !.motherId = IF @ = id THEN Null ELSE @]]

\* ancestors.filter(a => a.id !== id)
StorageDelete(list, id) == SelectSeq(list, LAMBDA a : a.id # id)

\* ancestors.filter(a => a.id !== editingId): eligibleParents
eligibleParents(list, editId) == SelectSeq(list, LAMBDA a : a.id # editId)

\* the values the form's father select can hold when a record is edited: the
\* record's own fatherId, none, or a male / unknown eligible parent
FatherChoices(list, editId) ==
    {Null, MapGet(list, editId).fatherId}
        \cup {a.id : a \in {x \in SeqToSet(eligibleParents(list, editId)) :
                                x.gender \in {"Male", "Unknown"}}}

MotherChoices(list, editId) ==
    {Null, MapGet(list, editId).motherId}
        \cup {a.id : a \in {x \in SeqToSet(eligibleParents(list, editId)) :
                                x.gender \in {"Female", "Unknown"}}}

\* the values the selects can hold for a new record: none, an option of the
\* select, or the record the AI-extracted parent name matched
NewParentChoices(list) == {Null} \cup IdsOf(list)

\* the links of a record that a write changed, as <<record, new parent>>
ChangedLinks(list, id, f, m) ==
    IF ~MapHas(list, id) THEN {}
    ELSE LET old == MapGet(list, id)
         IN  {<<id, p>> : p \in ({f} \ {Null, old.fatherId}) \cup ({m} \ {Null, old.motherId})}

\* the form's Cycle Guard calls on submit, skipped for an empty select
FormGuardCalls(id, f, m) == {<<id, p>> : p \in {f, m} \ {Null}}

\* the check of handleSubmit when it is left out
FormCircularUnchecked(list, id, f, m) == FALSE

\* the circular check of handleSubmit with the mother select left out
FormCircularFatherOnly(list, id, f, m) ==
    f # Null /\ hasCircularReference(list, id, f)

\* the circular check of handleSubmit
FormCircular(list, id, f, m) ==
    \/ (f # Null /\ hasCircularReference(list, id, f))
    \/ (m # Null /\ hasCircularReference(list, id, m))

AdminLogin ==
    /\ ~isAdmin
    /\ isAdmin' = TRUE
    /\ UNCHANGED <<ancestors, issued, formError, parentWrites, guardCalls,
                   guardVars, treeVars, relVars,
                   anaVars, sesVars>>

Logout ==
    /\ isAdmin
    /\ isAdmin' = FALSE
    /\ UNCHANGED <<ancestors, issued, formError, parentWrites, guardCalls,
                   guardVars, treeVars, relVars,
                   anaVars, sesVars>>

\* The form is submitted for a new record (editingId is null: no circular
\* check); handleSaveForm adds it under a fresh id.
FormSaveNew(genders) ==
    /\ isAdmin
    /\ issued < MaxPersons
    /\ \E f \in NewParentChoices(ancestors), m \in NewParentChoices(ancestors),
          g \in genders :
          ancestors' = StorageAdd(ancestors, Ancestor(issued + 1, f, m, g, NoYear))
    /\ issued' = issued + 1
    /\ formError' = FALSE
    /\ parentWrites' = {}
    /\ guardCalls' = {}
    /\ UNCHANGED <<isAdmin, guardVars, treeVars, relVars, anaVars, sesVars>>

\* The form is submitted for an existing record and the Cycle Guard finds a
\* circular reference: the form sets its error and returns.
FormEditRejected ==
    /\ \E id \in IdsOf(ancestors) :
          \E f \in FatherChoices(ancestors, id), m \in MotherChoices(ancestors, id) :
              FormCircular(ancestors, id, f, m)
    /\ formError' = TRUE
    /\ parentWrites' = {}
    /\ guardCalls' = {}
    /\ UNCHANGED <<ancestors, issued, isAdmin, guardVars, treeVars, relVars, anaVars, sesVars>>

\* The form is submitted for an existing record, both Cycle Guard calls
\* return false and handleSaveForm updates the record.
FormSaveEdit(genders) ==
    /\ isAdmin
    /\ \E id \in IdsOf(ancestors) :
          \E f \in FatherChoices(ancestors, id), m \in MotherChoices(ancestors, id),
             g \in genders :
              /\ ~FormCircular(ancestors, id, f, m)
              /\ ancestors' = StorageUpdate(ancestors, id,
                                 [fatherId |-> f, motherId |-> m, gender |-> g,
                                  birthYear |-> NoYear])
              /\ parentWrites' = ChangedLinks(ancestors, id, f, m)
              /\ guardCalls' = FormGuardCalls(id, f, m)
    /\ formError' = FALSE
    /\ UNCHANGED <<issued, isAdmin, guardVars, treeVars, relVars, anaVars, sesVars>>

\* handleDeleteAncestor: the record is removed, nothing else is touched.
DeleteAncestor ==
    /\ isAdmin
    /\ \E id \in IdsOf(ancestors) : ancestors' = StorageDelete(ancestors, id)
    /\ formError' = FALSE
    /\ parentWrites' = {}
    /\ guardCalls' = {}
    /\ UNCHANGED <<issued, isAdmin, guardVars, treeVars, relVars, anaVars, sesVars>>

\* handleApplyPrediction -> handleUpdateAncestor -> StorageService.update:
\* { [pred.field]: pred.predictedValue } is written as it came from the AI.
ApplyPrediction ==
    /\ isAdmin
    /\ \E id \in IdsOf(ancestors), field \in PredictedFields, value \in RefIds :
          /\ ancestors' = StorageUpdate(ancestors, id, (field :> value))
          /\ parentWrites' =
                LET old == MapGet(ancestors, id)
                IN  ChangedLinks(ancestors, id,
                        IF field = "fatherId" THEN value ELSE old.fatherId,
                        IF field = "motherId" THEN value ELSE old.motherId)
    /\ guardCalls' = {}
    /\ formError' = FALSE
    /\ UNCHANGED <<issued, isAdmin, guardVars, treeVars, relVars, anaVars, sesVars>>

InitApp ==
    /\ ancestors = <<>>
    /\ issued = 0
    /\ isAdmin = FALSE
    /\ formError = FALSE
    /\ parentWrites = {}
    /\ guardCalls = {}
    /\ GuardOff
    /\ TreeOff
    /\ RelOff
    /\ AnaOff
    /\ SesOff

NextForm ==
    \/ AdminLogin
    \/ Logout
    \/ FormSaveNew(Gender)
    \/ FormEditRejected
    \/ FormSaveEdit(Gender)
    \/ DeleteAncestor

\* A single writer using the ancestor form and delete only.
SpecForm == InitApp /\ [][NextForm]_vars

NextApp ==
    \/ AdminLogin
    \/ Logout
    \/ FormSaveNew(AppGenders)
    \/ FormEditRejected
    \/ FormSaveEdit(AppGenders)
    \/ DeleteAncestor
    \/ ApplyPrediction

\* A single writer using every write path.
SpecApp == InitApp /\ [][NextApp]_vars

(***************************************************************************)
(* StorageService.update as the two storage modules of services/storage.ts *)
(* carry it out: "firestore" (lines 18-101) and "local" (lines 105-210).   *)
(***************************************************************************)
Backends == {"firestore", "local"}

\* Fields an updates object may carry: { [pred.field]: pred.predictedValue }
\* with a field name that came from the AI response as a free string.  The
\* identifier and one parent reference stand for all fields.
UpdateFields == {"id", "fatherId"}

\* const { id: _, ...cleanUpdates } = updates
CleanUpdates(updates) == [k \in (DOMAIN updates) \ {"id"} |-> updates[k]]

\* firestore: updateDoc(docRef, cleanUpdates) on the document of that id;
\* local: { ...ancestors[index], ...updates }
StorageUpdateOn(b, list, id, updates) ==
    IF b = "firestore"
    THEN StorageUpdate(list, id, CleanUpdates(updates))
    ELSE StorageUpdate(list, id, updates)

\* handleUpdateAncestor(id, updates) -> StorageService.update(id, updates)
UpdateAncestor ==
    /\ isAdmin
    /\ \E id \in Ids, field \in UpdateFields, value \in RefIds :
          /\ ancestors' = StorageUpdateOn(backend, ancestors, id, (field :> value))
          /\ parentWrites' =
                IF ~MapHas(ancestors, id) THEN {}
                ELSE LET old == MapGet(ancestors, id)
                     IN  ChangedLinks(ancestors, id,
                             IF field = "fatherId" THEN value ELSE old.fatherId,
                             IF field = "motherId" THEN value ELSE old.motherId)
    /\ guardCalls' = {}
    /\ formError' = FALSE
    /\ UNCHANGED <<lifespanData, issued, isAdmin, backend, apc, currentYear, anomalies, groups, stats,
                   scores, snapshot, roots, generationMap, guardVars, treeVars, relVars, sesVars>>

InitStore ==
    /\ ancestors = <<>>
    /\ issued = 0
    /\ isAdmin = FALSE
    /\ formError = FALSE
    /\ parentWrites = {}
    /\ guardCalls = {}
    /\ backend \in Backends
    /\ apc = "off"
    /\ currentYear = 0
    /\ anomalies = <<>>
    /\ groups = <<>>
    /\ stats = <<>>
    /\ scores = <<>>
    /\ lifespanData = <<>>
    /\ snapshot = <<>>
    /\ roots = <<>>
    /\ generationMap = <<>>
    /\ GuardOff
    /\ TreeOff
    /\ RelOff
    /\ SesOff

NextStore ==
    \/ AdminLogin
    \/ Logout
    \/ FormSaveNew(AppGenders)
    \/ UpdateAncestor
    \/ DeleteAncestor

\* A single writer adding, updating and deleting records, on either storage
\* module.
SpecStore == InitStore /\ [][NextStore]_vars

(***************************************************************************)
(* Anomaly & Quality Scanner: findLocalAnomalies.                          *)
(***************************************************************************)
\* Largest number of records in a list handed to the scanner.
MaxScan == 2

\* A full Ancestor record: the fields of types.ts that the analytics read.
\* A name is the sequence of its characters.
Person(i, n, g, by, dy, f, m) ==
    [id |-> i, name |-> n, gender |-> g, birthYear |-> by, deathYear |-> dy,
     fatherId |-> f, motherId |-> m]

\* The fixed thresholds of the checks.
MaxLifespan == 120
CertainlyDeceasedAge == 110
MinParentAge == 12
MaxMotherAge == 65

\* The wording of each message; the interpolated values are kept beside it.
MsgDeathBeforeBirth == "Death year is before birth year"
MsgLifespan == "Recorded lifespan is highly unusual"
MsgNoDeathYear == "Born 110+ years ago but no death year recorded"
MsgFatherNotBefore == "Father born same or after child"
MsgFatherYoung == "Father was only that old when child was born"
MsgMotherNotBefore == "Mother born same or after child"
MsgMotherYoung == "Mother was only that old when child was born"
MsgMotherOld == "Mother was unusually old when child was born"

Anomaly(person, type, text, parentName, values) ==
    [id |-> person.id, name |-> person.name, type |-> type,
     message |-> [text |-> text, parentName |-> parentName, values |-> values]]

\* person.birthYear && person.deathYear && person.deathYear < person.birthYear;
\* the mutated form asks for more than one year between the two
DeathWellBeforeBirth(person) ==
    /\ person.birthYear # NoYear
    /\ person.deathYear # NoYear
    /\ person.deathYear + 1 < person.birthYear

DeathBeforeBirth(person) ==
    /\ person.birthYear # NoYear
    /\ person.deathYear # NoYear
    /\ person.deathYear < person.birthYear

\* the lifespan test with >= in place of >
ImpossibleLifespanInclusive(person) ==
    /\ person.birthYear # NoYear
    /\ person.deathYear # NoYear
    /\ person.deathYear - person.birthYear >= MaxLifespan

\* person.birthYear && person.deathYear && (person.deathYear - person.birthYear > 120)
ImpossibleLifespan(person) ==
    /\ person.birthYear # NoYear
    /\ person.deathYear # NoYear
    /\ person.deathYear - person.birthYear > MaxLifespan

\* person.birthYear && !person.deathYear && (currentYear - person.birthYear > 110)
ImpliedDeceased(person, year) ==
    /\ person.birthYear # NoYear
    /\ person.deathYear = NoYear
    /\ year - person.birthYear > CertainlyDeceasedAge

\* person.birthYear - parent.birthYear < 12; the mutated form takes 12 too
ParentTooYoungInclusive(gap) == gap <= MinParentAge

ParentTooYoung(gap) == gap < MinParentAge

\* person.birthYear - mother.birthYear > 65
MotherTooOld(gap) == gap > MaxMotherAge

\* 4. Parent Logic, father: at most one anomaly
FatherAnomalies(list, person) ==
    IF person.fatherId = Null \/ ~MapHas(list, person.fatherId) THEN <<>>
    ELSE LET father == MapGet(list, person.fatherId)
             gap == person.birthYear - father.birthYear
         IN  IF father.birthYear = NoYear \/ person.birthYear = NoYear THEN <<>>
             ELSE IF father.birthYear >= person.birthYear
                  THEN <<Anomaly(person, "Error", MsgFatherNotBefore, father.name,
                                 <<father.birthYear, person.birthYear>>)>>
             ELSE IF ParentTooYoung(gap)
                  THEN <<Anomaly(person, "Warning", MsgFatherYoung, father.name, <<gap>>)>>
             ELSE <<>>

\* the mother branch with > in place of >= in its first test
MotherAnomaliesStrict(list, person) ==
    IF person.motherId = Null \/ ~MapHas(list, person.motherId) THEN <<>>
    ELSE LET mother == MapGet(list, person.motherId)
             gap == person.birthYear - mother.birthYear
         IN  IF mother.birthYear = NoYear \/ person.birthYear = NoYear THEN <<>>
             ELSE IF mother.birthYear > person.birthYear
                  THEN <<Anomaly(person, "Error", MsgMotherNotBefore, mother.name,
                                 <<mother.birthYear, person.birthYear>>)>>
             ELSE IF ParentTooYoung(gap)
                  THEN <<Anomaly(person, "Warning", MsgMotherYoung, mother.name, <<gap>>)>>
             ELSE IF MotherTooOld(gap)
                  THEN <<Anomaly(person, "Warning", MsgMotherOld, mother.name, <<gap>>)>>
             ELSE <<>>

\* 4. Parent Logic, mother: at most one anomaly
MotherAnomalies(list, person) ==
    IF person.motherId = Null \/ ~MapHas(list, person.motherId) THEN <<>>
    ELSE LET mother == MapGet(list, person.motherId)
             gap == person.birthYear - mother.birthYear
         IN  IF mother.birthYear = NoYear \/ person.birthYear = NoYear THEN <<>>
             ELSE IF mother.birthYear >= person.birthYear
                  THEN <<Anomaly(person, "Error", MsgMotherNotBefore, mother.name,
                                 <<mother.birthYear, person.birthYear>>)>>
             ELSE IF ParentTooYoung(gap)
                  THEN <<Anomaly(person, "Warning", MsgMotherYoung, mother.name, <<gap>>)>>
             ELSE IF MotherTooOld(gap)
                  THEN <<Anomaly(person, "Warning", MsgMotherOld, mother.name, <<gap>>)>>
             ELSE <<>>

\* the body of ancestors.forEach(person => ...): what one person pushes
PersonAnomalies(list, person, year) ==
    (IF DeathBeforeBirth(person)
     THEN <<Anomaly(person, "Error", MsgDeathBeforeBirth, <<>>,
                    <<person.deathYear, person.birthYear>>)>>
     ELSE <<>>)
    \o (IF ImpossibleLifespan(person)
        THEN <<Anomaly(person, "Warning", MsgLifespan, <<>>,
                       <<person.deathYear - person.birthYear>>)>>
        ELSE <<>>)
    \o (IF ImpliedDeceased(person, year)
        THEN <<Anomaly(person, "Warning", MsgNoDeathYear, <<>>, <<person.birthYear>>)>>
        ELSE <<>>)
    \o FatherAnomalies(list, person)
    \o MotherAnomalies(list, person)

\* findLocalAnomalies(ancestors), with currentYear = new Date().getFullYear()
findLocalAnomalies(list, year) ==
    LET RECURSIVE From(_)
        From(i) ==
            IF i > Len(list) THEN <<>>
            ELSE PersonAnomalies(list, list[i], year) \o From(i + 1)
    IN  From(1)

\* The consistency check runs on the list it is handed.
ScanAnomalies ==
    /\ apc = "call"
    /\ snapshot' = ancestors
    /\ anomalies' = findLocalAnomalies(ancestors, currentYear)
    /\ apc' = "done"
    /\ UNCHANGED <<lifespanData, ancestors, backend, currentYear, groups, stats, scores, roots,
                   generationMap, guardVars, treeVars, relVars, appVars, sesVars>>

\* Years the scanned records carry: gaps of 5, 12, 30, 65 and 66 years to
\* 1900; a death in 1899 and one in 2030.
ScanBirthYears == {NoYear, 1900, 1905, 1912, 1930, 1965, 1966}

ScanDeathYears == {NoYear, 1899, 2030}

\* new Date().getFullYear(): 110 and more than 110 years after 1900
CurrentYears == {2010, 2026}

ScanList(list) ==
    \E n \in 0..MaxScan :
        \E fm \in [1..n -> RefIds \X RefIds \X ScanBirthYears \X ScanDeathYears] :
            list = [i \in 1..n |->
                       Person(i, <<>>, "Unknown", fm[i][3], fm[i][4], fm[i][1], fm[i][2])]

InitScan ==
    /\ ScanList(ancestors)
    /\ currentYear \in CurrentYears
    /\ apc = "call"
    /\ backend = "local"
    /\ anomalies = <<>>
    /\ groups = <<>>
    /\ stats = <<>>
    /\ scores = <<>>
    /\ lifespanData = <<>>
    /\ snapshot = <<>>
    /\ roots = <<>>
    /\ generationMap = <<>>
    /\ GuardOff
    /\ TreeOff
    /\ RelOff
    /\ AppOff
    /\ SesOff

\* One call of the scanner on every list with years.
SpecScan == InitScan /\ [][ScanAnomalies]_vars

\* Years around the thresholds of the date checks: lifespans of 119, 120 and
\* 121 years, and ages of 109, 110 and 111 years in the current year.
DateBirthYears == {NoYear, 1900, 1901}

DateDeathYears == {NoYear, 1899, 2020, 2021}

DateCurrentYears == {2010, 2011}

DateList(list) ==
    \E n \in 0..MaxScan :
        \E bd \in [1..n -> DateBirthYears \X DateDeathYears] :
            list = [i \in 1..n |->
                       Person(i, <<>>, "Unknown", bd[i][1], bd[i][2], Null, Null)]

InitDates ==
    /\ DateList(ancestors)
    /\ currentYear \in DateCurrentYears
    /\ apc = "call"
    /\ backend = "local"
    /\ anomalies = <<>>
    /\ groups = <<>>
    /\ stats = <<>>
    /\ scores = <<>>
    /\ lifespanData = <<>>
    /\ snapshot = <<>>
    /\ roots = <<>>
    /\ generationMap = <<>>
    /\ GuardOff
    /\ TreeOff
    /\ RelOff
    /\ AppOff
    /\ SesOff

\* One call of the scanner on every list with years at the thresholds.
SpecDates == InitDates /\ [][ScanAnomalies]_vars

(***************************************************************************)
(* Duplicate detection: findPotentialDuplicates.                           *)
(***************************************************************************)
\* Longest name, in characters, of a record handed to the duplicate pass.
MaxNameLen == 2

\* The characters of a name: an upper-case letter, its lower-case form and
\* white space.  The separator "-" and the digits of a year are none of them.
NameChars == {"J", "j", " "}

\* String.prototype.toLowerCase
toLowerCase(name) == [i \in DOMAIN name |-> IF name[i] = "J" THEN "j" ELSE name[i]]

\* String.prototype.trimStart
RECURSIVE trimStart(_)
trimStart(name) ==
    IF name # <<>> /\ Head(name) = " " THEN trimStart(Tail(name)) ELSE name

\* String.prototype.trimEnd
RECURSIVE trimEnd(_)
trimEnd(name) ==
    IF name # <<>> /\ name[Len(name)] = " "
    THEN trimEnd(SubSeq(name, 1, Len(name) - 1))
    ELSE name

\* String.prototype.trim; the mutated form leaves trailing white space
trimLeadingOnly(name) == trimStart(name)

trim(name) == trimEnd(trimStart(name))

\* ${a.birthYear || '?'}: the decimal digits of the year, or a question mark
YearText(year) == IF year = NoYear THEN "?" ELSE ToString(year)

\* `${a.name.toLowerCase().trim()}-${a.birthYear || '?'}`
DuplicateKey(a) == trim(toLowerCase(a.name)) \o <<"-">> \o <<YearText(a.birthYear)>>

\* the keys of `groups` in insertion order: the order of first appearance
RECURSIVE KeysInOrder(_, _)
KeysInOrder(list, seen) ==
    IF list = <<>> THEN <<>>
    ELSE LET key == DuplicateKey(Head(list))
         IN  IF key \in seen THEN KeysInOrder(Tail(list), seen)
             ELSE <<key>> \o KeysInOrder(Tail(list), seen \cup {key})

\* groups[key]: the records pushed under the key, in list order
GroupOf(list, key) == SelectSeq(list, LAMBDA a : DuplicateKey(a) = key)

\* Object.values(groups).filter(g => g.length > 1)
findPotentialDuplicates(list) ==
    LET keys == KeysInOrder(list, {})
        all == [k \in DOMAIN keys |-> GroupOf(list, keys[k])]
    IN  SelectSeq(all, LAMBDA g : Len(g) > 1)

\* The duplicate pass runs on the list it is handed.
FindDuplicates ==
    /\ apc = "call"
    /\ snapshot' = ancestors
    /\ groups' = findPotentialDuplicates(ancestors)
    /\ apc' = "done"
    /\ UNCHANGED <<lifespanData, ancestors, backend, currentYear, anomalies, stats, scores, roots,
                   generationMap, guardVars, treeVars, relVars, appVars, sesVars>>

\* every name of up to MaxNameLen characters
Names == UNION {[1..n -> NameChars] : n \in 0..MaxNameLen}

DupYears == {NoYear, 1950, 1951}

DupList(list) ==
    \E n \in 0..MaxPersons :
        \E ny \in [1..n -> Names \X DupYears] :
            list = [i \in 1..n |->
                       Person(i, ny[i][1], "Unknown", ny[i][2], NoYear, Null, Null)]

InitDup ==
    /\ DupList(ancestors)
    /\ currentYear = 0
    /\ apc = "call"
    /\ backend = "local"
    /\ anomalies = <<>>
    /\ groups = <<>>
    /\ stats = <<>>
    /\ scores = <<>>
    /\ lifespanData = <<>>
    /\ snapshot = <<>>
    /\ roots = <<>>
    /\ generationMap = <<>>
    /\ GuardOff
    /\ TreeOff
    /\ RelOff
    /\ AppOff
    /\ SesOff

\* One call of the duplicate pass on every list of named records.
SpecDup == InitDup /\ [][FindDuplicates]_vars

(***************************************************************************)
(* Statistics Aggregator: calculateStats and calculateCompleteness.        *)
(***************************************************************************)
\* avgLifespan when no record has valid dates
NotAvailable == "N/A"

\* (totalLifespan / countWithDates).toFixed(1): the quotient rounded to one
\* decimal, as text
toFixed1(total, count) ==
    LET tenths == (20 * total + count) \div (2 * count)
    IN  ToString(tenths \div 10) \o "." \o ToString(tenths % 10)

\* a.birthYear && a.deathYear && a.deathYear > a.birthYear
HasValidDates(a) ==
    /\ a.birthYear # NoYear
    /\ a.deathYear # NoYear
    /\ a.deathYear > a.birthYear

\* gender === 'Male' / 'Female' / anything else; the mutated form counts no
\* one as unknown
CountUnknownNever(list) == 0

CountUnknown(list) ==
    Len(SelectSeq(list, LAMBDA a : a.gender # "Male" /\ a.gender # "Female"))

RECURSIVE TotalLifespan(_)
TotalLifespan(list) ==
    IF list = <<>> THEN 0
    ELSE (IF HasValidDates(Head(list))
          THEN Head(list).deathYear - Head(list).birthYear ELSE 0)
         + TotalLifespan(Tail(list))

calculateStats(list) ==
    LET countWithDates == Len(SelectSeq(list, HasValidDates))
    IN  [total |-> Len(list),
         male |-> Len(SelectSeq(list, LAMBDA a : a.gender = "Male")),
         female |-> Len(SelectSeq(list, LAMBDA a : a.gender = "Female")),
         unknown |-> CountUnknown(list),
         avgLifespan |-> IF countWithDates > 0
                         THEN toFixed1(TotalLifespan(list), countWithDates)
                         ELSE NotAvailable]

\* Math.round((score / 5) * 100), one point each for name, gender, birth,
\* death and a recorded parent
calculateCompleteness(a) ==
    LET score == (IF a.name # <<>> THEN 1 ELSE 0)
                 + (IF a.gender # "Unknown" THEN 1 ELSE 0)
                 + (IF a.birthYear # NoYear THEN 1 ELSE 0)
                 + (IF a.deathYear # NoYear THEN 1 ELSE 0)
                 + (IF a.fatherId # Null \/ a.motherId # Null THEN 1 ELSE 0)
    IN  score * 20

\* A render of the application computes the statistics of the list and the
\* completeness of each record.
RenderStats ==
    /\ apc = "call"
    /\ snapshot' = ancestors
    /\ stats' = calculateStats(ancestors)
    /\ scores' = [i \in DOMAIN ancestors |-> calculateCompleteness(ancestors[i])]
    /\ apc' = "done"
    /\ UNCHANGED <<lifespanData, ancestors, backend, currentYear, anomalies, groups, roots,
                   generationMap, guardVars, treeVars, relVars, appVars, sesVars>>

StatsBirthYears == {NoYear, 1900}

StatsDeathYears == {NoYear, 1899, 1975}

StatsList(list) ==
    \E n \in 0..MaxPersons :
        \E gy \in [1..n -> Gender \X StatsBirthYears \X StatsDeathYears \X {Null, 1}] :
            list = [i \in 1..n |->
                       Person(i, <<"j">>, gy[i][1], gy[i][2], gy[i][3], gy[i][4], Null)]

InitStats ==
    /\ StatsList(ancestors)
    /\ currentYear = 0
    /\ apc = "call"
    /\ backend = "local"
    /\ anomalies = <<>>
    /\ groups = <<>>
    /\ stats = <<>>
    /\ scores = <<>>
    /\ lifespanData = <<>>
    /\ snapshot = <<>>
    /\ roots = <<>>
    /\ generationMap = <<>>
    /\ GuardOff
    /\ TreeOff
    /\ RelOff
    /\ AppOff
    /\ SesOff

\* One render on every list of records with gender and years.
SpecStats == InitStats /\ [][RenderStats]_vars

(***************************************************************************)
(* Statistics Aggregator: getLifespanDistribution.                         *)
(***************************************************************************)
\* new Array(11): the buckets 0-9, 10-19, ..., 90-99, 100+
BucketCount == 11

\* a.birthYear && a.deathYear && a.deathYear >= a.birthYear
InHistogram(a) ==
    /\ a.birthYear # NoYear
    /\ a.deathYear # NoYear
    /\ a.deathYear >= a.birthYear

\* Math.min(Math.floor(age / 10), 10), as an index from 0
BucketIndex(a) ==
    LET age == a.deathYear - a.birthYear
    IN  IF age \div 10 < BucketCount - 1 THEN age \div 10 ELSE BucketCount - 1

\* range and label of bucket i (from 0)
BucketRange(i) ==
    IF i = BucketCount - 1 THEN "100+"
    ELSE ToString(i * 10) \o "-" \o ToString(i * 10 + 9)

BucketLabel(i) ==
    IF i = BucketCount - 1 THEN "100+" ELSE ToString(i * 10) \o "s"

getLifespanDistribution(list) ==
    [k \in 1..BucketCount |->
        [range |-> BucketRange(k - 1),
         count |-> Len(SelectSeq(list, LAMBDA a : InHistogram(a) /\ BucketIndex(a) = k - 1)),
         label |-> BucketLabel(k - 1)]]

\* A render of the analytics dashboard computes the histogram of the list.
RenderLifespans ==
    /\ apc # "off"
    /\ lifespanData = <<>>
    /\ lifespanData' = getLifespanDistribution(ancestors)
    /\ UNCHANGED <<ancestors, backend, apc, currentYear, anomalies, groups, stats, scores,
                   snapshot, roots, generationMap, guardVars, treeVars, relVars, appVars, sesVars>>

\* Lifespans of -1, 0, 75 and 105 years.
LifeBirthYears == {NoYear, 1900}

LifeDeathYears == {NoYear, 1899, 1900, 1975, 2005}

LifeList(list) ==
    \E n \in 0..MaxPersons :
        \E bd \in [1..n -> LifeBirthYears \X LifeDeathYears] :
            list = [i \in 1..n |->
                       Person(i, <<"j">>, "Unknown", bd[i][1], bd[i][2], Null, Null)]

InitLife ==
    /\ LifeList(ancestors)
    /\ currentYear = 0
    /\ apc = "call"
    /\ backend = "local"
    /\ anomalies = <<>>
    /\ groups = <<>>
    /\ stats = <<>>
    /\ scores = <<>>
    /\ lifespanData = <<>>
    /\ snapshot = <<>>
    /\ roots = <<>>
    /\ generationMap = <<>>
    /\ GuardOff
    /\ TreeOff
    /\ RelOff
    /\ AppOff
    /\ SesOff

NextLife == RenderStats \/ RenderLifespans

\* The statistics and the histogram of every list with lifespans, computed
\* in either order.
SpecLife == InitLife /\ [][NextLife]_vars

(***************************************************************************)
(* 3D tree view: renderTree of ThreeView (Dashboard.tsx).                  *)
(***************************************************************************)
\* (a.birthYear || 0): the sort key of the 3D view
BirthKey(a) == IF a.birthYear = NoYear THEN 0 ELSE a.birthYear

\* ancestors.sort((a, b) => (a.birthYear || 0) - (b.birthYear || 0)): a
\* stable sort of the array itself
RECURSIVE InsertByBirth(_, _)
InsertByBirth(sorted, a) ==
    IF sorted = <<>> THEN <<a>>
    ELSE IF BirthKey(Head(sorted)) <= BirthKey(a)
         THEN <<Head(sorted)>> \o InsertByBirth(Tail(sorted), a)
         ELSE <<a>> \o sorted

RECURSIVE sortByBirth(_)
sortByBirth(list) ==
    IF list = <<>> THEN <<>>
    ELSE InsertByBirth(sortByBirth(SubSeq(list, 1, Len(list) - 1)), list[Len(list)])

\* the array after the first lines of renderTree: sorted in place when no
\* record is parentless
AfterRootChoice(list) ==
    IF potentialRoots(list) = <<>> /\ list # <<>> THEN sortByBirth(list) ELSE list

\* roots, as ids: the parentless records, or the first record after the sort
Roots3D(list) ==
    IF potentialRoots(list) = <<>> /\ list # <<>>
    THEN <<sortByBirth(list)[1].id>>
    ELSE [i \in DOMAIN potentialRoots(list) |-> potentialRoots(list)[i].id]

\* assignGeneration(id, gen) and the forEach over the children, on the
\* generation map so far; ok is FALSE once the recursion is deeper than the
\* call stack allows (RangeError)
RECURSIVE assignGeneration(_, _, _, _, _)
RECURSIVE AssignEach(_, _, _, _, _)
assignGeneration(list, id, gen, st, depth) ==
    IF ~st.ok THEN st
    ELSE IF depth > StackLimit THEN [st EXCEPT !.ok = FALSE]
    ELSE IF id \in DOMAIN st.map /\ st.map[id] >= gen THEN st
    ELSE AssignEach(list, ChildrenOf(list, id), gen + 1,
                    [st EXCEPT !.map = (id :> gen) @@ st.map], depth + 1)

AssignEach(list, ids, gen, st, depth) ==
    IF ids = <<>> THEN st
    ELSE AssignEach(list, Tail(ids), gen,
                    assignGeneration(list, Head(ids), gen, st, depth), depth)

\* ancestors.forEach(a => { if (!generationMap.has(a.id)) assignGeneration(a.id, 0); })
RECURSIVE AssignRest(_, _, _)
AssignRest(list, i, st) ==
    IF i > Len(list) THEN st
    ELSE AssignRest(list, i + 1,
                    IF list[i].id \in DOMAIN st.map THEN st
                    ELSE assignGeneration(list, list[i].id, 0, st, 1))

\* renderTree of the 3D view, up to the generation map
RenderTree3D ==
    /\ apc = "call"
    /\ snapshot' = ancestors
    /\ ancestors' = AfterRootChoice(ancestors)
    /\ roots' = Roots3D(ancestors)
    /\ LET list == AfterRootChoice(ancestors)
           fromRoots == AssignEach(list, Roots3D(ancestors), 0,
                                   [ok |-> TRUE, map |-> <<>>], 1)
           st == AssignRest(list, 1, fromRoots)
       IN  /\ generationMap' = st.map
           /\ apc' = IF st.ok THEN "done" ELSE "overflow"
    /\ UNCHANGED <<lifespanData, backend, currentYear, anomalies, groups, stats, scores,
                   guardVars, treeVars, relVars, appVars, sesVars>>

InitThree ==
    /\ YearList(ancestors)
    /\ currentYear = 0
    /\ apc = "call"
    /\ backend = "local"
    /\ anomalies = <<>>
    /\ groups = <<>>
    /\ stats = <<>>
    /\ scores = <<>>
    /\ lifespanData = <<>>
    /\ snapshot = <<>>
    /\ roots = <<>>
    /\ generationMap = <<>>
    /\ GuardOff
    /\ TreeOff
    /\ RelOff
    /\ AppOff
    /\ SesOff

\* One render of the 3D tree on every list with birth years.
SpecThree == InitThree /\ [][RenderTree3D]_vars

(***************************************************************************)
(* The session of the first App component (App.tsx lines 1-496): the       *)
(* ancestor form as a modal with its selects, the import wizard, and the   *)
(* handlers that reach StorageService.                                     *)
(***************************************************************************)
\* Records the stores of the session, client, listener and seeding
\* specifications hold at most.
MaxRecords == 2

\* setForm({ ..., fatherId: existing.fatherId || '', motherId: ... }) in edit
\* mode, setForm(initialForm) otherwise
FormFor(list, id) ==
    IF id # Null /\ MapHas(list, id)
    THEN [fatherId |-> MapGet(list, id).fatherId, motherId |-> MapGet(list, id).motherId]
    ELSE initialForm

\* the values a parent select of the open form offers
SelectChoices(list, id, field) ==
    IF id = Null \/ ~MapHas(list, id) THEN NewParentChoices(list)
    ELSE IF field = "fatherId" THEN FatherChoices(list, id)
    ELSE MotherChoices(list, id)

\* for (const ancestor of parsedAncestors) await StorageService.add({...,
\* fatherId: null, motherId: null}): n records under fresh ids, newest first
ImportAdd(list, first, n) ==
    [i \in 1..n |-> Ancestor(first + n - i, Null, Null, "Unknown", NoYear)] \o list

\* the effect of AncestorForm on [editingId, ancestors]: an open form is
\* filled again from the list it is handed
FormRefilled(list) == IF showForm THEN FormFor(list, editingId) ELSE form

handleAdminLogin ==
    /\ ~isAdmin
    /\ isAdmin' = TRUE
    /\ lastCall' = "none"
    /\ UNCHANGED <<ancestors, issued, formError, parentWrites, guardCalls, showForm,
                   editingId, form, showImportWizard, clientView, listeners,
                   issuedCallbacks, calls, unsubscribed, importStore, seedPc,
                   guardVars, treeVars, relVars, anaVars>>

handleLogout ==
    /\ isAdmin
    /\ isAdmin' = FALSE
    /\ lastCall' = "none"
    /\ UNCHANGED <<ancestors, issued, formError, parentWrites, guardCalls, showForm,
                   editingId, form, showImportWizard, clientView, listeners,
                   issuedCallbacks, calls, unsubscribed, importStore, seedPc,
                   guardVars, treeVars, relVars, anaVars>>

\* handleQuickAction('manual-add'); a read-only session is shown the login
\* dialog instead
QuickActionAdd ==
    /\ isAdmin
    /\ ~showForm
    /\ editingId' = Null
    /\ form' = initialForm
    /\ showForm' = TRUE
    /\ formError' = FALSE
    /\ lastCall' = "none"
    /\ UNCHANGED <<ancestors, issued, isAdmin, parentWrites, guardCalls,
                   showImportWizard, clientView, listeners,
                   issuedCallbacks, calls, unsubscribed, importStore, seedPc,
                   guardVars, treeVars, relVars, anaVars>>

\* ProfileView onEdit: setEditingId(id); setShowForm(true)
ProfileEdit ==
    /\ ~showForm
    /\ \E id \in IdsOf(ancestors) :
          /\ editingId' = id
          /\ form' = FormFor(ancestors, id)
    /\ showForm' = TRUE
    /\ formError' = FALSE
    /\ lastCall' = "none"
    /\ UNCHANGED <<ancestors, issued, isAdmin, parentWrites, guardCalls,
                   showImportWizard, clientView, listeners,
                   issuedCallbacks, calls, unsubscribed, importStore, seedPc,
                   guardVars, treeVars, relVars, anaVars>>

\* handleChange on one of the parent selects: the value is set, the error
\* is cleared
handleChange ==
    /\ showForm
    /\ \E field \in {"fatherId", "motherId"} :
          \E value \in SelectChoices(ancestors, editingId, field) :
              form' = [form EXCEPT ![field] = value]
    /\ formError' = FALSE
    /\ lastCall' = "none"
    /\ UNCHANGED <<ancestors, issued, isAdmin, parentWrites, guardCalls, showForm,
                   editingId, showImportWizard, clientView, listeners,
                   issuedCallbacks, calls, unsubscribed, importStore, seedPc,
                   guardVars, treeVars, relVars, anaVars>>

\* onCancel: setShowForm(false); setEditingId(null)
CancelForm ==
    /\ showForm
    /\ showForm' = FALSE
    /\ editingId' = Null
    /\ form' = initialForm
    /\ formError' = FALSE
    /\ lastCall' = "none"
    /\ UNCHANGED <<ancestors, issued, isAdmin, parentWrites, guardCalls,
                   showImportWizard, clientView, listeners,
                   issuedCallbacks, calls, unsubscribed, importStore, seedPc,
                   guardVars, treeVars, relVars, anaVars>>

\* handleSubmit when the circular check finds a reference: setError, return
SubmitRejected ==
    /\ showForm
    /\ editingId # Null
    /\ FormCircular(ancestors, editingId, form.fatherId, form.motherId)
    /\ formError' = TRUE
    /\ lastCall' = "none"
    /\ UNCHANGED <<ancestors, issued, isAdmin, parentWrites, guardCalls, showForm,
                   editingId, form, showImportWizard, clientView, listeners,
                   issuedCallbacks, calls, unsubscribed, importStore, seedPc,
                   guardVars, treeVars, relVars, anaVars>>

\* handleSubmit when the check passes or is skipped: onSave(form), which is
\* handleSaveForm: denied in a read-only session, else update or add and
\* the form is closed
SubmitSaved ==
    /\ showForm
    /\ ~(editingId # Null
         /\ FormCircular(ancestors, editingId, form.fatherId, form.motherId))
    /\ IF ~isAdmin
       THEN /\ lastCall' = "none"
            /\ UNCHANGED <<ancestors, issued, showForm, editingId, form, formError,
                           parentWrites, guardCalls>>
       ELSE /\ IF editingId # Null
               THEN /\ ancestors' = StorageUpdate(ancestors, editingId,
                                        [fatherId |-> form.fatherId,
                                         motherId |-> form.motherId,
                                         gender |-> "Unknown", birthYear |-> NoYear])
                    /\ parentWrites' = ChangedLinks(ancestors, editingId,
                                                    form.fatherId, form.motherId)
                    /\ guardCalls' = FormGuardCalls(editingId, form.fatherId,
                                                    form.motherId)
                    /\ lastCall' = "update"
                    /\ UNCHANGED issued
               ELSE /\ issued < MaxRecords
                    /\ ancestors' = StorageAdd(ancestors,
                                        Ancestor(issued + 1, form.fatherId,
                                                 form.motherId, "Unknown", NoYear))
                    /\ issued' = issued + 1
                    /\ parentWrites' = {}
                    /\ guardCalls' = {}
                    /\ lastCall' = "add"
            /\ showForm' = FALSE
            /\ editingId' = Null
            /\ form' = initialForm
            /\ formError' = FALSE
    /\ UNCHANGED <<isAdmin, showImportWizard, clientView, listeners,
                   issuedCallbacks, calls, unsubscribed, importStore, seedPc,
                   guardVars, treeVars, relVars, anaVars>>

\* handleDeleteAncestor(id) from the profile view; a read-only session is
\* shown the login dialog instead
handleDeleteAncestor ==
    /\ isAdmin
    /\ ~showForm
    /\ \E id \in IdsOf(ancestors) : ancestors' = StorageDelete(ancestors, id)
    /\ lastCall' = "delete"
    /\ parentWrites' = {}
    /\ guardCalls' = {}
    /\ UNCHANGED <<issued, isAdmin, formError, showForm, editingId, form,
                   showImportWizard, clientView, listeners,
                   issuedCallbacks, calls, unsubscribed, importStore, seedPc,
                   guardVars, treeVars, relVars, anaVars>>

\* handleUpdateAncestor(id, updates) from the analytics view; a read-only
\* session is shown the login dialog instead
handleUpdateAncestor ==
    /\ isAdmin
    /\ ~showForm
    /\ \E id \in IdsOf(ancestors), field \in PredictedFields,
          value \in IdsOf(ancestors) \cup {Null} :
          /\ ancestors' = StorageUpdate(ancestors, id, (field :> value))
          /\ parentWrites' =
                LET old == MapGet(ancestors, id)
                IN  ChangedLinks(ancestors, id,
                        IF field = "fatherId" THEN value ELSE old.fatherId,
                        IF field = "motherId" THEN value ELSE old.motherId)
    /\ lastCall' = "update"
    /\ guardCalls' = {}
    /\ UNCHANGED <<issued, isAdmin, formError, showForm, editingId, form,
                   showImportWizard, clientView, listeners,
                   issuedCallbacks, calls, unsubscribed, importStore, seedPc,
                   guardVars, treeVars, relVars, anaVars>>

\* handleQuickAction('import'); a read-only session is shown the login
\* dialog instead
QuickActionImport ==
    /\ isAdmin
    /\ ~showImportWizard
    /\ showImportWizard' = TRUE
    /\ lastCall' = "none"
    /\ UNCHANGED <<ancestors, issued, isAdmin, formError, parentWrites, guardCalls,
                   showForm, editingId, form, clientView, listeners,
                   issuedCallbacks, calls, unsubscribed, importStore, seedPc,
                   guardVars, treeVars, relVars, anaVars>>

\* RecordVault's upload button: onImportClick={() => setShowImportWizard(true)}
onImportClick ==
    /\ ~showImportWizard
    /\ showImportWizard' = TRUE
    /\ lastCall' = "none"
    /\ UNCHANGED <<ancestors, issued, isAdmin, formError, parentWrites, guardCalls,
                   showForm, editingId, form, clientView, listeners,
                   issuedCallbacks, calls, unsubscribed, importStore, seedPc,
                   guardVars, treeVars, relVars, anaVars>>

\* ImportWizard onClose without an import
CloseImportWizard ==
    /\ showImportWizard
    /\ showImportWizard' = FALSE
    /\ lastCall' = "none"
    /\ UNCHANGED <<ancestors, issued, isAdmin, formError, parentWrites, guardCalls,
                   showForm, editingId, form, clientView, listeners,
                   issuedCallbacks, calls, unsubscribed, importStore, seedPc,
                   guardVars, treeVars, relVars, anaVars>>

\* executeImport of components/ImportWizard.tsx: every parsed record is
\* added, then the wizard closes
executeImport ==
    /\ showImportWizard
    /\ \E n \in 1..(MaxRecords - issued) :
          /\ ancestors' = ImportAdd(ancestors, issued + 1, n)
          /\ issued' = issued + n
          /\ form' = FormRefilled(ImportAdd(ancestors, issued + 1, n))
    /\ showImportWizard' = FALSE
    /\ lastCall' = "add"
    /\ parentWrites' = {}
    /\ guardCalls' = {}
    /\ UNCHANGED <<isAdmin, formError, showForm, editingId, clientView, listeners,
                   issuedCallbacks, calls, unsubscribed, importStore, seedPc,
                   guardVars, treeVars, relVars, anaVars>>

InitSession ==
    /\ ancestors = <<>>
    /\ issued = 0
    /\ isAdmin = FALSE
    /\ formError = FALSE
    /\ parentWrites = {}
    /\ guardCalls = {}
    /\ GuardOff
    /\ TreeOff
    /\ RelOff
    /\ AnaOff
    /\ SesOff

NextSession ==
    \/ handleAdminLogin
    \/ handleLogout
    \/ QuickActionAdd
    \/ ProfileEdit
    \/ handleChange
    \/ CancelForm
    \/ SubmitRejected
    \/ SubmitSaved
    \/ handleDeleteAncestor
    \/ handleUpdateAncestor
    \/ QuickActionImport
    \/ onImportClick
    \/ CloseImportWizard
    \/ executeImport

\* One browser tab used through every screen, read-only or as admin.
SpecSession == InitSession /\ [][NextSession]_vars

(***************************************************************************)
(* Several clients (browser tabs) on the Firestore module                  *)
(* (services/storage.ts lines 18-101): each holds the list its onSnapshot  *)
(* callback handed it last, and its form checks an edit against that list. *)
(***************************************************************************)
MaxClients == 2

Clients == 1..MaxClients

\* the payload of handleSaveForm
FormPayload(f, m) ==
    [fatherId |-> f, motherId |-> m, gender |-> "Unknown", birthYear |-> NoYear]

\* onSnapshot: the collection as it is now reaches client c, and
\* setAncestors(data) makes it the list the client's form works on
SnapshotArrives ==
    /\ \E c \in Clients :
          /\ clientView[c] # ancestors
          /\ clientView' = [clientView EXCEPT ![c] = ancestors]
    /\ UNCHANGED <<ancestors, issued, isAdmin, formError, parentWrites, guardCalls,
                   showForm, editingId, form, showImportWizard, lastCall, listeners,
                   issuedCallbacks, calls, unsubscribed, importStore, seedPc,
                   guardVars, treeVars, relVars, anaVars>>

\* Client c saves the form for a new record: addDoc; the client's own
\* listener shows its write at once.
ClientAdd ==
    /\ issued < MaxRecords
    /\ \E c \in Clients :
          \E f \in NewParentChoices(clientView[c]), m \in NewParentChoices(clientView[c]) :
              LET rec == Ancestor(issued + 1, f, m, "Unknown", NoYear)
              IN  /\ ancestors' = StorageAdd(ancestors, rec)
                  /\ clientView' = [clientView EXCEPT ![c] = StorageAdd(@, rec)]
    /\ issued' = issued + 1
    /\ lastCall' = "add"
    /\ parentWrites' = {}
    /\ guardCalls' = {}
    /\ UNCHANGED <<isAdmin, formError, showForm, editingId, form, showImportWizard,
                   listeners, issuedCallbacks, calls, unsubscribed, importStore, seedPc,
                   guardVars, treeVars, relVars, anaVars>>

\* Client c submits the form for a record of its list: handleSubmit checks
\* the selected parents against the client's list, handleSaveForm calls
\* updateDoc on the document of that id.
ClientEdit ==
    /\ \E c \in Clients :
          \E id \in IdsOf(clientView[c]) :
              \E f \in FatherChoices(clientView[c], id),
                 m \in MotherChoices(clientView[c], id) :
                  /\ ~FormCircular(clientView[c], id, f, m)
                  /\ ancestors' = StorageUpdateOn("firestore", ancestors, id,
                                                  FormPayload(f, m))
                  /\ clientView' = [clientView EXCEPT ![c] =
                                       StorageUpdateOn("firestore", @, id,
                                                       FormPayload(f, m))]
                  /\ parentWrites' = ChangedLinks(ancestors, id, f, m)
                  /\ guardCalls' = FormGuardCalls(id, f, m)
    /\ lastCall' = "update"
    /\ UNCHANGED <<issued, isAdmin, formError, showForm, editingId, form,
                   showImportWizard, listeners, issuedCallbacks, calls, unsubscribed, importStore,
                   seedPc, guardVars, treeVars, relVars, anaVars>>

InitClients ==
    /\ ancestors = <<>>
    /\ issued = 0
    /\ isAdmin = TRUE
    /\ formError = FALSE
    /\ parentWrites = {}
    /\ guardCalls = {}
    /\ backend = "firestore"
    /\ apc = "off"
    /\ currentYear = 0
    /\ anomalies = <<>>
    /\ groups = <<>>
    /\ stats = <<>>
    /\ scores = <<>>
    /\ lifespanData = <<>>
    /\ snapshot = <<>>
    /\ roots = <<>>
    /\ generationMap = <<>>
    /\ showForm = FALSE
    /\ editingId = Null
    /\ form = initialForm
    /\ showImportWizard = FALSE
    /\ lastCall = "none"
    /\ clientView = [c \in Clients |-> <<>>]
    /\ listeners = <<>>
    /\ issuedCallbacks = 0
    /\ calls = <<>>
    /\ unsubscribed = {}
    /\ importStore = <<>>
    /\ seedPc = <<>>
    /\ GuardOff
    /\ TreeOff
    /\ RelOff

NextClients ==
    \/ SnapshotArrives
    \/ ClientAdd
    \/ ClientEdit

\* Admin sessions in several tabs adding and editing records through the
\* form, on one Firestore collection.
SpecClients == InitClients /\ [][NextClients]_vars

(***************************************************************************)
(* The local-storage module (services/storage.ts lines 105-210): the list  *)
(* under STORAGE_KEY and the listeners of one tab.  `ancestors` is what    *)
(* is stored under STORAGE_KEY; a record's id stands for its dateAdded,    *)
(* both growing with every record created.                                 *)
(***************************************************************************)
MaxCallbacks == 3

\* the example record of checkAndSeed
SeedBirthYear == 1980

\* parsed.sort((a, b) => (b.dateAdded || 0) - (a.dateAdded || 0))
InsertNewestFirst(sorted, a) ==
    LET before == SelectSeq(sorted, LAMBDA x : x.id >= a.id)
        after  == SelectSeq(sorted, LAMBDA x : x.id < a.id)
    IN  before \o <<a>> \o after

RECURSIVE SortNewestFirst(_)
SortNewestFirst(list) ==
    IF list = <<>> THEN <<>>
    ELSE InsertNewestFirst(SortNewestFirst(SubSeq(list, 1, Len(list) - 1)),
                           list[Len(list)])

\* StorageService.getAll() on the stored list
getAll(stored) == SortNewestFirst(stored)

\* a notification that reaches the newest listener only
notifyNewestOnly(stored, ls) ==
    IF ls = <<>> THEN <<>> ELSE <<<<ls[Len(ls)], getAll(stored)>>>>

\* notifyListeners: listeners.forEach(callback => callback(data))
notifyListeners(stored, ls) == [i \in DOMAIN ls |-> <<ls[i], getAll(stored)>>]

\* listeners.filter(l => l !== callback)
WithoutListener(ls, cb) == SelectSeq(ls, LAMBDA l : l # cb)

\* subscribe(callback) with a callback created for the call (the arrow
\* function of the data-loading effect)
Subscribe ==
    /\ issuedCallbacks < MaxCallbacks
    /\ issuedCallbacks' = issuedCallbacks + 1
    /\ listeners' = Append(listeners, issuedCallbacks + 1)
    /\ calls' = <<<<issuedCallbacks + 1, getAll(ancestors)>>>>
    /\ lastCall' = "subscribe"
    /\ UNCHANGED <<ancestors, issued, isAdmin, formError, parentWrites, guardCalls,
                   showForm, editingId, form, showImportWizard, clientView,
                   unsubscribed, importStore, seedPc,
                   guardVars, treeVars, relVars, anaVars>>

\* the function subscribe returned is called
Unsubscribe ==
    /\ \E cb \in SeqToSet(listeners) :
          /\ listeners' = WithoutListener(listeners, cb)
          /\ unsubscribed' = unsubscribed \cup {cb}
    /\ calls' = <<>>
    /\ lastCall' = "unsubscribe"
    /\ UNCHANGED <<ancestors, issued, isAdmin, formError, parentWrites, guardCalls,
                   showForm, editingId, form, showImportWizard, clientView,
                   issuedCallbacks, importStore, seedPc,
                   guardVars, treeVars, relVars, anaVars>>

\* StorageService.add: setItem, then notifyListeners
LocalAdd ==
    /\ issued < MaxRecords
    /\ \E f \in NewParentChoices(ancestors) :
          ancestors' = StorageAdd(getAll(ancestors),
                                  Ancestor(issued + 1, f, Null, "Unknown", NoYear))
    /\ issued' = issued + 1
    /\ calls' = notifyListeners(ancestors', listeners)
    /\ lastCall' = "add"
    /\ UNCHANGED <<isAdmin, formError, parentWrites, guardCalls,
                   showForm, editingId, form, showImportWizard, clientView, listeners,
                   issuedCallbacks, unsubscribed, importStore, seedPc,
                   guardVars, treeVars, relVars, anaVars>>

\* StorageService.add or update when localStorage.setItem throws (quota):
\* the catch block logs, nothing is stored and nobody is notified
LocalWriteFails ==
    /\ ancestors # <<>>
    /\ calls' = <<>>
    /\ lastCall' = "failed"
    /\ UNCHANGED <<ancestors, issued, isAdmin, formError, parentWrites, guardCalls,
                   showForm, editingId, form, showImportWizard, clientView, listeners,
                   issuedCallbacks, unsubscribed, importStore, seedPc,
                   guardVars, treeVars, relVars, anaVars>>

\* StorageService.update: a write and a notification when the id is found,
\* nothing otherwise
LocalUpdate ==
    /\ \E id \in 1..MaxRecords, value \in IdsOf(ancestors) \cup {Null} :
          IF MapHas(getAll(ancestors), id)
          THEN /\ ancestors' = StorageUpdate(getAll(ancestors), id,
                                             ("fatherId" :> value))
               /\ calls' = notifyListeners(ancestors', listeners)
               /\ lastCall' = "update"
          ELSE /\ calls' = <<>>
               /\ lastCall' = "none"
               /\ UNCHANGED ancestors
    /\ UNCHANGED <<issued, isAdmin, formError, parentWrites, guardCalls,
                   showForm, editingId, form, showImportWizard, clientView, listeners,
                   issuedCallbacks, unsubscribed, importStore, seedPc,
                   guardVars, treeVars, relVars, anaVars>>

\* StorageService.delete: the filtered list is stored and the listeners are
\* notified, whether or not a record had that id
LocalDelete ==
    /\ \E id \in 1..MaxRecords :
          ancestors' = StorageDelete(getAll(ancestors), id)
    /\ calls' = notifyListeners(ancestors', listeners)
    /\ lastCall' = "delete"
    /\ UNCHANGED <<issued, isAdmin, formError, parentWrites, guardCalls,
                   showForm, editingId, form, showImportWizard, clientView, listeners,
                   issuedCallbacks, unsubscribed, importStore, seedPc,
                   guardVars, treeVars, relVars, anaVars>>

\* StorageService.checkAndSeed of the local module: one example record on an
\* empty list, nothing otherwise
LocalSeed ==
    /\ issued < MaxRecords
    /\ IF getAll(ancestors) = <<>>
       THEN /\ ancestors' = <<Ancestor(issued + 1, Null, Null, "Male", SeedBirthYear)>>
            /\ issued' = issued + 1
            /\ calls' = notifyListeners(ancestors', listeners)
            /\ lastCall' = "seed"
       ELSE /\ calls' = <<>>
            /\ lastCall' = "none"
            /\ UNCHANGED <<ancestors, issued>>
    /\ UNCHANGED <<isAdmin, formError, parentWrites, guardCalls,
                   showForm, editingId, form, showImportWizard, clientView, listeners,
                   issuedCallbacks, unsubscribed, importStore, seedPc,
                   guardVars, treeVars, relVars, anaVars>>

InitLocal ==
    /\ ancestors = <<>>
    /\ issued = 0
    /\ isAdmin = TRUE
    /\ formError = FALSE
    /\ parentWrites = {}
    /\ guardCalls = {}
    /\ GuardOff
    /\ TreeOff
    /\ RelOff
    /\ AnaOff
    /\ SesOff

NextLocal ==
    \/ Subscribe
    \/ Unsubscribe
    \/ LocalAdd
    \/ LocalWriteFails
    \/ LocalUpdate
    \/ LocalDelete
    \/ LocalSeed

\* One tab on the local-storage module: callbacks come and go while
\* records are written.
SpecLocal == InitLocal /\ [][NextLocal]_vars

(***************************************************************************)
(* The import wizard written for the local-storage module                  *)
(* (src/unnamed/part_004): executeImport.  The parsed records carry the    *)
(* ids 1..n of their file; a link to n + 1 leaves the batch.               *)
(***************************************************************************)
\* idMap.get(id): the fresh id of the parsed record with that id, if any
IdMapGet(batch, first, id) ==
    IF \E i \in DOMAIN batch : batch[i].id = id
    THEN first + (CHOOSE i \in DOMAIN batch :
                     batch[i].id = id
                     /\ \A j \in DOMAIN batch : batch[j].id = id => j <= i) - 1
    ELSE Null

\* a.fatherId ? idMap.get(a.fatherId) || null : null
RemapLink(batch, first, link) ==
    IF link = Null THEN Null ELSE IdMapGet(batch, first, link)

\* finalAncestors
finalAncestors(batch, first) ==
    [i \in DOMAIN batch |->
        [batch[i] EXCEPT !.id = IdMapGet(batch, first, batch[i].id),
                         !.fatherId = RemapLink(batch, first, batch[i].fatherId),
                         !.motherId = RemapLink(batch, first, batch[i].motherId)]]

\* the parsed batches of n records
ParsedBatch(batch, n) ==
    /\ batch \in [1..n -> [id : 1..n, fatherId : 0..(n + 1), motherId : 0..(n + 1),
                           gender : {"Unknown"}, birthYear : {NoYear}]]
    /\ \A i \in 1..n : batch[i].id = i

\* executeImport: [...current, ...finalAncestors] is written under
\* 'ancestry_app_data'
executeImportLocal ==
    /\ \E n \in 1..(MaxRecords - issued) :
          \E batch \in [1..n -> [id : 1..n, fatherId : 0..(n + 1),
                                 motherId : 0..(n + 1),
                                 gender : {"Unknown"}, birthYear : {NoYear}]] :
              /\ ParsedBatch(batch, n)
              /\ snapshot' = batch
              /\ importStore' = getAll(ancestors) \o finalAncestors(batch, issued + 1)
              /\ issued' = issued + n
    /\ calls' = <<>>
    /\ lastCall' = "import"
    /\ UNCHANGED <<ancestors, isAdmin, formError, parentWrites, guardCalls,
                   showForm, editingId, form, showImportWizard, clientView, listeners,
                   issuedCallbacks, unsubscribed, seedPc,
                   backend, apc, currentYear, anomalies, groups, stats, scores,
                   lifespanData, roots, generationMap,
                   guardVars, treeVars, relVars>>

NextImport ==
    \/ Subscribe
    \/ LocalAdd
    \/ executeImportLocal

\* One tab on the local-storage module importing files.
SpecImport == InitLocal /\ [][NextImport]_vars

(***************************************************************************)
(* checkAndSeed of the two storage modules, invoked by the data-loading    *)
(* effect of every tab and of every change of the signed-in user.          *)
(***************************************************************************)
MaxSeedRuns == 3

SeedRuns == 1..MaxSeedRuns

\* the example record
seedData(id) == Ancestor(id, Null, Null, "Male", SeedBirthYear)

\* Firestore module: const snapshot = await getDocs(query(..., limit(1)))
SeedCheck ==
    /\ backend = "firestore"
    /\ \E k \in SeedRuns :
          /\ seedPc[k] = "idle"
          /\ seedPc' = [seedPc EXCEPT ![k] = IF ancestors = <<>> THEN "empty" ELSE "done"]
    /\ lastCall' = "none"
    /\ UNCHANGED <<ancestors, issued, isAdmin, formError, parentWrites, guardCalls,
                   showForm, editingId, form, showImportWizard, clientView, listeners,
                   issuedCallbacks, calls, unsubscribed, importStore,
                   guardVars, treeVars, relVars, anaVars>>

\* Firestore module: if (snapshot.empty) await StorageService.add(seedData)
SeedAdd ==
    /\ backend = "firestore"
    /\ \E k \in SeedRuns :
          /\ seedPc[k] = "empty"
          /\ seedPc' = [seedPc EXCEPT ![k] = "done"]
    /\ ancestors' = StorageAdd(ancestors, seedData(issued + 1))
    /\ issued' = issued + 1
    /\ lastCall' = "add"
    /\ UNCHANGED <<isAdmin, formError, parentWrites, guardCalls,
                   showForm, editingId, form, showImportWizard, clientView, listeners,
                   issuedCallbacks, calls, unsubscribed, importStore,
                   guardVars, treeVars, relVars, anaVars>>

\* local-storage module: getAll, the test and setItem run without a break
SeedLocal ==
    /\ backend = "local"
    /\ \E k \in SeedRuns :
          /\ seedPc[k] = "idle"
          /\ seedPc' = [seedPc EXCEPT ![k] = "done"]
    /\ IF getAll(ancestors) = <<>>
       THEN /\ ancestors' = <<seedData(issued + 1)>>
            /\ issued' = issued + 1
            /\ calls' = notifyListeners(ancestors', listeners)
            /\ lastCall' = "seed"
       ELSE /\ calls' = <<>>
            /\ lastCall' = "none"
            /\ UNCHANGED <<ancestors, issued>>
    /\ UNCHANGED <<isAdmin, formError, parentWrites, guardCalls,
                   showForm, editingId, form, showImportWizard, clientView, listeners,
                   issuedCallbacks, unsubscribed, importStore,
                   guardVars, treeVars, relVars, anaVars>>

\* the stores the seeding can find: none, or the records of earlier use
SeedList(list) ==
    \E n \in 0..MaxRecords :
        list \in [1..n -> {Ancestor(i, f, Null, "Unknown", NoYear) :
                              i \in 1..MaxRecords, f \in 0..MaxRecords}]
        /\ \A i \in 1..n : list[i].id = n - i + 1

InitSeed ==
    /\ SeedList(ancestors)
    /\ snapshot = ancestors
    /\ issued = Len(ancestors)
    /\ isAdmin = FALSE
    /\ formError = FALSE
    /\ parentWrites = {}
    /\ guardCalls = {}
    /\ backend \in Backends
    /\ apc = "off"
    /\ currentYear = 0
    /\ anomalies = <<>>
    /\ groups = <<>>
    /\ stats = <<>>
    /\ scores = <<>>
    /\ lifespanData = <<>>
    /\ roots = <<>>
    /\ generationMap = <<>>
    /\ showForm = FALSE
    /\ editingId = Null
    /\ form = initialForm
    /\ showImportWizard = FALSE
    /\ lastCall = "none"
    /\ clientView = <<>>
    /\ listeners = <<>>
    /\ issuedCallbacks = 0
    /\ calls = <<>>
    /\ unsubscribed = {}
    /\ importStore = <<>>
    /\ seedPc = [k \in SeedRuns |-> "idle"]
    /\ GuardOff
    /\ TreeOff
    /\ RelOff

NextSeed ==
    \/ SeedCheck
    \/ SeedAdd
    \/ SeedLocal

\* Several checkAndSeed invocations on one store, on either module.
SpecSeed == InitSeed /\ [][NextSeed]_vars

(***************************************************************************)
(* Reference notions of the father/mother graph, used to state the claims. *)
(***************************************************************************)
\* the non-null fatherId / motherId of the records stored under id
ParentSet(list, id) ==
    UNION { SeqToSet(Parents(list[i])) : i \in {j \in DOMAIN list : list[j].id = id} }

\* every id reachable from the ids of S by following father/mother links
\* upward through records of the list, in zero or more steps
RECURSIVE UpClosure(_, _)
UpClosure(list, S) ==
    LET T == S \cup UNION {ParentSet(list, x) : x \in S}
    IN  IF T = S THEN S ELSE UpClosure(list, T)

\* the ids reachable upward from id in one or more steps: its ancestors
AncestorsOf(list, id) == UpClosure(list, ParentSet(list, id))

\* no person is their own ancestor
Acyclic(list) == \A id \in IdsOf(list) : id \notin AncestorsOf(list, id)

NoDuplicates(s) == \A i, j \in DOMAIN s : s[i] = s[j] => i = j

(***************************************************************************)
(* Claims about the Cycle Guard (checked under SpecGuard).                 *)
(***************************************************************************)
\* C1: for every list, subject P and non-null proposed parent Q, the guard
\* returns true if and only if Q = P or P is reachable from Q by following
\* father/mother links upward through records of the list.
C1_GuardIffReachable ==
    (gpc = "done" /\ proposedParentId # Null) =>
        (gResult <=> personId \in UpClosure(ancestors, {proposedParentId}))

\* C1 witness: the guard answered true after walking through an intermediate
\* record: P is an ancestor of Q, but not a parent of Q.
C1_Witness ==
    /\ gpc = "done"
    /\ gResult
    /\ Len(expandLog) >= 3
    /\ personId \notin ParentSet(ancestors, proposedParentId)

\* C2 as stated (refuted): whenever Q is not reachable upward from P (Q is
\* neither P nor an ancestor of P), the guard returns false.
C2_Original ==
    (gpc = "done" /\ proposedParentId # Null
        /\ proposedParentId \notin UpClosure(ancestors, {personId}))
    => (gResult = FALSE)

\* C2 amended: whenever P is not reachable upward from Q (P is neither Q nor
\* an ancestor of Q), the guard returns false.
C2_FalseWhenSubjectNotAbove ==
    (gpc = "done" /\ personId \notin UpClosure(ancestors, {proposedParentId}))
    => (gResult = FALSE)

\* C2 witness: the guard walked at least two records upward from Q, did not
\* meet P, and returned false, while Q is an ancestor of P.
C2_Witness ==
    /\ gpc = "done"
    /\ gResult = FALSE
    /\ Len(expandLog) >= 2
    /\ proposedParentId \in AncestorsOf(ancestors, personId)
    /\ personId \notin UpClosure(ancestors, {proposedParentId})

\* C5: hasCircularReference terminates on every input, cyclic lists and
\* dangling references included, and no id is expanded more than once.
C5_GuardTerminates ==
    /\ [](NoDuplicates(expandLog))
    /\ <>(gpc = "done")

\* C5 witness: the guard ran to its end on a list with a father/mother cycle
\* among the records it walked and with a dangling reference.
C5_Witness ==
    /\ gpc = "done"
    /\ gResult = FALSE
    /\ \E x \in visited : x \in AncestorsOf(ancestors, x)
    /\ \E x \in visited : ~MapHas(ancestors, x)

(***************************************************************************)
(* Claims about the Tree Builder (SpecTree, SpecRoot).                     *)
(***************************************************************************)
\* number of nodes of the tree that carry the given id
Occurrences(nodes, id) == Cardinality({i \in DOMAIN nodes : nodes[i].id = id})

\* C6: on every non-empty acyclic list the Tree Builder (root selection and
\* the recursive buildTree) terminates.
C6_TreeTerminates ==
    (tpc = "call" /\ ancestors # <<>> /\ Acyclic(ancestors)) ~> (tpc = "done")

\* C6 witness: a finished tree three generations deep on an acyclic list.
C6_Witness ==
    /\ tpc = "done"
    /\ Acyclic(ancestors)
    /\ \E i \in DOMAIN treeNodes : treeNodes[i].depth >= 3

\* C7 as stated (refuted): on every acyclic list every person of the list
\* appears in the finished tree exactly once.
C7_Original ==
    (tpc = "done" /\ Acyclic(ancestors)) =>
        \A id \in IdsOf(ancestors) : Occurrences(treeNodes, id) = 1

\* C8 as stated (refuted, already on acyclic lists): the root is a person
\* without recorded parents whenever the list has one; otherwise it is a
\* person with the smallest recorded birth year.
C8_Original ==
    (tpc = "build" /\ Acyclic(ancestors)) =>
        LET root == MapGet(ancestors, rootId)
            parentless == {i \in DOMAIN ancestors :
                              ancestors[i].fatherId = Null /\ ancestors[i].motherId = Null}
            dated == {i \in DOMAIN ancestors : ancestors[i].birthYear # NoYear}
        IN  IF parentless # {}
            THEN root.fatherId = Null /\ root.motherId = Null
            ELSE dated # {} =>
                    /\ root.birthYear # NoYear
                    /\ \A i \in dated : root.birthYear <= ancestors[i].birthYear

(***************************************************************************)
(* Claims about the Relationship Classifier (SpecRel).                     *)
(***************************************************************************)
\* the label that describes the same relationship seen from the other side
Mirror(label) ==
    CASE label = RelChildOf -> RelParentOf
      [] label = RelParentOf -> RelChildOf
      [] label = RelGrandchildOf -> RelGrandparentOf
      [] label = RelGrandparentOf -> RelGrandchildOf
      [] OTHER -> label

\* the nine labels of the contract
ContractLabels ==
    {RelSelf, RelChildOf, RelParentOf, RelFull, RelHalf, RelCousin,
     RelGrandchildOf, RelGrandparentOf, RelDistant}

\* C9 as stated (refuted): for every list and every pair of ids the two
\* orders of the call describe the same relationship: equal labels, but for
\* the Child/Parent and Grandchild/Grandparent swap.
C9_Original ==
    (rpc = {"AB", "BA"}) => (relBA = Mirror(relAB))

\* C10 as stated (refuted): every value the classifier returns, whether or
\* not the ids name records, is one of the nine labels of the contract.
C10_Original ==
    ("AB" \in rpc /\ relAB # RangeError) => relAB \in ContractLabels

\* C10 amended: every value the classifier returns is one of the nine labels
\* of the contract or "Unknown", and it is "Unknown" exactly when the two ids
\* differ and at least one of them names no record of the list.
C10_LabelsOrUnknown ==
    ("AB" \in rpc /\ relAB # RangeError) =>
        /\ relAB \in ContractLabels \cup {RelUnknown}
        /\ (relAB = RelUnknown) <=>
              (personAId # personBId
                 /\ (personAId \notin IdsOf(ancestors) \/ personBId \notin IdsOf(ancestors)))

\* C10 witness: the classifier returned "Unknown" for an id that names no
\* record, on a list that holds the other id.
C10_Witness ==
    /\ "AB" \in rpc
    /\ relAB = RelUnknown
    /\ personAId \in IdsOf(ancestors)
    /\ personBId \notin IdsOf(ancestors)

(***************************************************************************)
(* Claims about the write paths (SpecForm, SpecApp).                       *)
(***************************************************************************)
\* C3: from an acyclic store, after any sequence of form additions, form
\* edits validated by the Cycle Guard, and deletions by a single writer, no
\* stored person is their own ancestor.
C3_StoreAcyclic == Acyclic(ancestors)

\* C3 witness: the form has just rejected an edit as circular while the
\* store holds a chain of three generations.
C3_Witness ==
    /\ formError
    /\ \E a, b, c \in IdsOf(ancestors) :
          /\ b \in ParentSet(ancestors, a)
          /\ c \in ParentSet(ancestors, b)

\* C4 as stated (refuted): every write that changes a record's fatherId or
\* motherId is preceded, in the same handler, by a Cycle Guard call for that
\* (subject, new parent) pair that returned false.
C4_Original == parentWrites \subseteq guardCalls

(***************************************************************************)
(* Claims about dangling references and siblings (SpecRel).                *)
(***************************************************************************)
\* the list with every fatherId / motherId that names no record set to null
Nullified(list) ==
    [i \in DOMAIN list |->
        [list[i] EXCEPT
            !.fatherId = IF @ \in IdsOf(list) THEN @ ELSE Null,
            !.motherId = IF @ \in IdsOf(list) THEN @ ELSE Null]]

\* C11 as stated (refuted, already on acyclic lists): a parent reference that
\* names no record is treated as null, so the classifier's answer on a list
\* equals its answer on the list with the dangling references set to null.
C11_Original ==
    ("AB" \in rpc /\ Acyclic(ancestors) /\ relAB # RangeError) =>
        relAB = calculateRelationship(Nullified(ancestors), personAId, personBId)

(***************************************************************************)
(* Claims about the Anomaly Scanner (SpecScan).                            *)
(***************************************************************************)
\* the anomalies reported for an id with one of the given wordings
Reported(id, type, texts) ==
    {k \in DOMAIN anomalies :
        /\ anomalies[k].id = id
        /\ anomalies[k].type = type
        /\ anomalies[k].message.text \in texts}

\* C12: for every person with both years recorded and deathYear < birthYear
\* the scanner emits exactly one death-before-birth Error for that person and
\* no lifespan Warning for that person.
C12_DeathBeforeBirth ==
    (apc = "done") =>
        \A i \in DOMAIN ancestors :
            LET person == ancestors[i]
            IN  (person.birthYear # NoYear /\ person.deathYear # NoYear
                    /\ person.deathYear < person.birthYear) =>
                    /\ Cardinality(Reported(person.id, "Error", {MsgDeathBeforeBirth})) = 1
                    /\ Reported(person.id, "Warning", {MsgLifespan}) = {}

\* C12 witness: the scanner ran on a person born 1900 who died 1899, and
\* reported an impossible lifespan for another person of the list.
C12_Witness ==
    /\ apc = "done"
    /\ \E i, j \in DOMAIN ancestors :
          /\ ancestors[i].birthYear = 1900
          /\ ancestors[i].deathYear = 1899
          /\ Reported(ancestors[j].id, "Warning", {MsgLifespan}) # {}

\* C13: for every recorded parent that is in the list, with both birth years
\* known and the child born g >= 1 years after the parent, the scanner warns
\* about the father link iff g < 12 and about the mother link iff g < 12 or
\* g > 65; a father is never warned about for being too old.
C13_ParentageWarnings ==
    (apc = "done") =>
        \A i \in DOMAIN ancestors :
            LET child == ancestors[i]
                Known(pid) ==
                    /\ pid # Null
                    /\ MapHas(ancestors, pid)
                    /\ child.birthYear # NoYear
                    /\ MapGet(ancestors, pid).birthYear # NoYear
                    /\ child.birthYear - MapGet(ancestors, pid).birthYear >= 1
                Gap(pid) == child.birthYear - MapGet(ancestors, pid).birthYear
            IN  /\ Known(child.fatherId) =>
                      ((Reported(child.id, "Warning", {MsgFatherYoung}) # {})
                          <=> Gap(child.fatherId) < 12)
                /\ Known(child.motherId) =>
                      ((Reported(child.id, "Warning", {MsgMotherYoung, MsgMotherOld}) # {})
                          <=> (Gap(child.motherId) < 12 \/ Gap(child.motherId) > 65))

\* C13 witness: a child born 66 years after a parent recorded both as its
\* father and as its mother: no warning for the father link, an unusually-old
\* warning for the mother link.
C13_Witness ==
    /\ apc = "done"
    /\ \E i \in DOMAIN ancestors :
          /\ ancestors[i].fatherId # Null
          /\ ancestors[i].motherId = ancestors[i].fatherId
          /\ MapHas(ancestors, ancestors[i].fatherId)
          /\ ancestors[i].birthYear = 1966
          /\ MapGet(ancestors, ancestors[i].fatherId).birthYear = 1900
          /\ Reported(ancestors[i].id, "Warning", {MsgFatherYoung}) = {}
          /\ Reported(ancestors[i].id, "Warning", {MsgMotherOld}) # {}

(***************************************************************************)
(* Claims about duplicate detection (SpecDup).                             *)
(***************************************************************************)
\* a name lower-cased, without its leading and trailing white space: what
\* lies between its first and its last character that is no white space
Normalised(name) ==
    LET solid == {i \in DOMAIN name : name[i] # " "}
        Least(S) == CHOOSE x \in S : \A y \in S : x <= y
        Greatest(S) == CHOOSE x \in S : \A y \in S : x >= y
        Lower(c) == IF c = "J" THEN "j" ELSE c
    IN  IF solid = {} THEN <<>>
        ELSE [k \in 1..(Greatest(solid) - Least(solid) + 1) |->
                 Lower(name[Least(solid) + k - 1])]

\* the reported groups that hold the record with the given id
GroupsWith(id) == {g \in DOMAIN groups : \E k \in DOMAIN groups[g] : groups[g][k].id = id}

C15_StatsCounts ==
    (apc = "done") =>
        /\ stats.total = Len(ancestors)
        /\ stats.male + stats.female + stats.unknown = stats.total
        /\ (ancestors = <<>>) =>
              /\ stats.total = 0
              /\ stats.male = 0
              /\ stats.female = 0
              /\ stats.unknown = 0
              /\ stats.avgLifespan = "N/A"

\* C15 witness: the statistics of the empty list have been computed.
C15_Witness ==
    /\ apc = "done"
    /\ snapshot = <<>>
    /\ stats.total = 0
    /\ stats.avgLifespan = NotAvailable

(***************************************************************************)
(* Claims about the store (SpecForm, SpecStore).                           *)
(***************************************************************************)
\* the list without its record at position pos
Without(list, pos) ==
    [k \in 1..(Len(list) - 1) |-> IF k < pos THEN list[k] ELSE list[k + 1]]

\* C16: a delete removes exactly the record with the given id and leaves
\* every other record as it was, in the same order, the fatherId / motherId
\* that named the deleted person included.
C16_DeleteNoCascade ==
    [][DeleteAncestor =>
          \E pos \in DOMAIN ancestors : ancestors' = Without(ancestors, pos)]_vars

\* C16 witness: after a delete a stored record still names the deleted
\* person as a parent.
C16_Witness ==
    /\ issued > Len(ancestors)
    /\ \E i \in DOMAIN ancestors :
          \E p \in SeqToSet(Parents(ancestors[i])) :
              /\ p \notin IdsOf(ancestors)
              /\ p <= issued

\* C17 as stated (refuted): whatever updates object an update is given, the
\* updated record keeps its id and no other record's id changes, so that ids
\* stay unique in the store.
C17_Original ==
    [][UpdateAncestor =>
          /\ Len(ancestors') = Len(ancestors)
          /\ \A i \in DOMAIN ancestors : ancestors'[i].id = ancestors[i].id]_vars

(***************************************************************************)
(* Claims about the tree views as projections (SpecThree).                 *)
(***************************************************************************)
\* C18 as stated (refuted, already on acyclic lists): after the tree of the
\* 3D view has been built the list holds the same records in the same order
\* with the same field values as when it was handed over.
C18_Original ==
    (apc = "done" /\ Acyclic(snapshot)) => ancestors = snapshot

(***************************************************************************)
(* Claims about siblings and termination of the classifier (SpecRel).      *)
(***************************************************************************)
\* the persons recorded as a parent of both, whichever field holds them
CommonParents(list, a, b) == ParentSet(list, a) \cap ParentSet(list, b)

\* C19 as stated (refuted, already on acyclic lists whose recorded parents
\* are all present): for two distinct persons of the list, neither recorded
\* as a parent of the other, the classifier answers 'Full Sibling' iff they have two parents in common and
\* 'Half Sibling' iff they have exactly one parent in common.
C19_Original ==
    ("AB" \in rpc /\ Acyclic(ancestors) /\ relAB # RangeError
        /\ personAId # personBId
        /\ personAId \in IdsOf(ancestors) /\ personBId \in IdsOf(ancestors)
        /\ personBId \notin ParentSet(ancestors, personAId)
        /\ personAId \notin ParentSet(ancestors, personBId)
        /\ ParentSet(ancestors, personAId) \cup ParentSet(ancestors, personBId)
              \subseteq IdsOf(ancestors)) =>
        /\ (relAB = RelFull) <=>
              (Cardinality(CommonParents(ancestors, personAId, personBId)) = 2)
        /\ (relAB = RelHalf) <=>
              (Cardinality(CommonParents(ancestors, personAId, personBId)) = 1)

\* C20 as stated (refuted): calculateRelationship returns for every list,
\* lists with a father/mother cycle or dangling references included, and
\* every pair of ids.
C20_Original == ("AB" \in rpc) => (relAB # RangeError)

(***************************************************************************)
(* Claims about the Tree Builder on corrupted data (SpecTree).             *)
(***************************************************************************)
\* some person on a father/mother cycle is the root or a descendant of it
CycleBelow(list, root) ==
    \E x \in IdsOf(list) :
        /\ x \in AncestorsOf(list, x)
        /\ (x = root \/ root \in AncestorsOf(list, x))

\* C21 as stated (refuted): on a list that contains a father/mother cycle
\* the recursion of the Tree Builder never returns.
C21_Original == (tpc = "done") => Acyclic(ancestors)

\* C21 amended: on a non-empty list the recursion of the Tree Builder fails
\* to return exactly when a person on a father/mother cycle is the root or a
\* descendant of the root; a cycle elsewhere in the list is never entered.
C21_LoopsIffCycleBelowRoot ==
    (tpc \in {"done", "overflow"} /\ ancestors # <<>>) =>
        ((tpc = "overflow") <=> CycleBelow(ancestors, rootId))

\* C21 witness: the recursion ran away on a cycle below a root that is not
\* itself on the cycle.
C21_Witness ==
    /\ tpc = "overflow"
    /\ rootId \notin AncestorsOf(ancestors, rootId)

(***************************************************************************)
(* Further claims about the Anomaly Scanner (SpecScan, SpecDates).         *)
(***************************************************************************)
FatherTexts == {MsgFatherNotBefore, MsgFatherYoung}

MotherTexts == {MsgMotherNotBefore, MsgMotherYoung, MsgMotherOld}

\* how many anomalies of either type are reported for an id with the wordings
CountReported(id, texts) ==
    Cardinality(Reported(id, "Error", texts)) + Cardinality(Reported(id, "Warning", texts))

\* C22: for every recorded parent that is in the list with both birth years
\* known, the scanner reports an Error for the link iff the parent is not
\* born strictly before the child; it reports at most one anomaly per link,
\* and none for a parent reference that names no record.
C22_ParentErrors ==
    (apc = "done") =>
        \A i \in DOMAIN ancestors :
            LET child == ancestors[i]
                Present(pid) == pid # Null /\ MapHas(ancestors, pid)
                Known(pid) ==
                    /\ Present(pid)
                    /\ child.birthYear # NoYear
                    /\ MapGet(ancestors, pid).birthYear # NoYear
                NotBefore(pid) == MapGet(ancestors, pid).birthYear >= child.birthYear
            IN  /\ Known(child.fatherId) =>
                      ((Reported(child.id, "Error", {MsgFatherNotBefore}) # {})
                          <=> NotBefore(child.fatherId))
                /\ Known(child.motherId) =>
                      ((Reported(child.id, "Error", {MsgMotherNotBefore}) # {})
                          <=> NotBefore(child.motherId))
                /\ CountReported(child.id, FatherTexts) <= 1
                /\ CountReported(child.id, MotherTexts) <= 1
                /\ Reported(child.id, "Warning", {MsgFatherNotBefore, MsgMotherNotBefore}) = {}
                /\ ~Present(child.fatherId) => CountReported(child.id, FatherTexts) = 0
                /\ ~Present(child.motherId) => CountReported(child.id, MotherTexts) = 0

\* C22 witness: a child whose mother was born in the child's own year is
\* reported with an Error, and its father reference names no record.
C22_Witness ==
    /\ apc = "done"
    /\ \E i \in DOMAIN ancestors :
          /\ ancestors[i].motherId \in IdsOf(ancestors) \ {ancestors[i].id}
          /\ MapGet(ancestors, ancestors[i].motherId).birthYear = ancestors[i].birthYear
          /\ Reported(ancestors[i].id, "Error", {MsgMotherNotBefore}) # {}
          /\ ancestors[i].fatherId # Null
          /\ ancestors[i].fatherId \notin IdsOf(ancestors)

\* C23: a person gets the lifespan Warning iff both years are recorded and
\* deathYear - birthYear > 120, the no-death Warning iff a birth year is
\* recorded, no death year is, and currentYear - birthYear > 110; and no
\* person gets more than one of the death-before-birth Error, the lifespan
\* Warning and the no-death Warning.
C23_DateChecks ==
    (apc = "done") =>
        \A i \in DOMAIN ancestors :
            LET person == ancestors[i]
                both == person.birthYear # NoYear /\ person.deathYear # NoYear
            IN  /\ (Reported(person.id, "Warning", {MsgLifespan}) # {})
                      <=> (both /\ person.deathYear - person.birthYear > 120)
                /\ (Reported(person.id, "Warning", {MsgNoDeathYear}) # {})
                      <=> (/\ person.birthYear # NoYear
                           /\ person.deathYear = NoYear
                           /\ currentYear - person.birthYear > 110)
                /\ CountReported(person.id,
                        {MsgDeathBeforeBirth, MsgLifespan, MsgNoDeathYear}) <= 1

\* C23 witness: one person with a lifespan of exactly 120 years and no
\* lifespan Warning, another aged 111 without a death year and warned about.
C23_Witness ==
    /\ apc = "done"
    /\ \E i, j \in DOMAIN ancestors :
          /\ ancestors[i].birthYear # NoYear
          /\ ancestors[i].deathYear - ancestors[i].birthYear = 120
          /\ Reported(ancestors[i].id, "Warning", {MsgLifespan}) = {}
          /\ ancestors[j].birthYear # NoYear
          /\ ancestors[j].deathYear = NoYear
          /\ currentYear - ancestors[j].birthYear = 111
          /\ Reported(ancestors[j].id, "Warning", {MsgNoDeathYear}) # {}

(***************************************************************************)
(* Claims about the mean and the histogram of lifespans (SpecLife).        *)
(***************************************************************************)
RECURSIVE SumCounts(_)
SumCounts(buckets) ==
    IF buckets = <<>> THEN 0 ELSE Head(buckets).count + SumCounts(Tail(buckets))

\* C24 as stated (refuted): the persons with both years recorded and a death
\* year not before the birth year are those counted in the histogram and
\* those in the mean: the bucket counts sum to their number, and the mean is
\* 'N/A' exactly when there is none.
C24_Original ==
    (apc = "done" /\ lifespanData # <<>>) =>
        LET population ==
                {i \in DOMAIN ancestors :
                    /\ ancestors[i].birthYear # NoYear
                    /\ ancestors[i].deathYear # NoYear
                    /\ ancestors[i].deathYear >= ancestors[i].birthYear}
        IN  /\ SumCounts(lifespanData) = Cardinality(population)
            /\ (stats.avgLifespan = NotAvailable) <=> (population = {})

(***************************************************************************)
(* Claims about the session (SpecSession).                                 *)
(***************************************************************************)
\* the Cycle Guard returns true for the father or the mother the open form
\* holds
GuardTrueForSelected ==
    \/ (form.fatherId # Null
        /\ hasCircularReference(ancestors, editingId, form.fatherId))
    \/ (form.motherId # Null
        /\ hasCircularReference(ancestors, editingId, form.motherId))

\* C25: when the form of a record being edited is submitted and the Cycle
\* Guard returns true for the selected father or the selected mother, the
\* form shows its error, no StorageService call is made, the store is
\* unchanged and the form stays open on the same record with the same
\* selections.
C25_RejectedEditKeepsStore ==
    [][((SubmitRejected \/ SubmitSaved) /\ editingId # Null /\ GuardTrueForSelected)
          => /\ formError'
             /\ lastCall' = "none"
             /\ ancestors' = ancestors
             /\ showForm' /\ editingId' = editingId /\ form' = form]_vars

\* An admin's edit of record 1 names, as mother, record 2 whose father is
\* record 1: the error is shown, the form is open and record 1 is unchanged.
C25_Witness ==
    /\ isAdmin /\ showForm /\ formError /\ editingId = 1
    /\ form = [fatherId |-> Null, motherId |-> 2]
    /\ MapHas(ancestors, 2) /\ MapGet(ancestors, 2).fatherId = 1
    /\ MapGet(ancestors, 1).motherId = Null
    /\ lastCall = "none"

\* C27: no step taken by a read-only session makes a StorageService call or
\* changes the store.
C27_Original ==
    [][(~isAdmin) => (lastCall' = "none" /\ ancestors' = ancestors)]_vars

(***************************************************************************)
(* Claims about several clients on one collection (SpecClients).           *)
(***************************************************************************)
\* C26: with two clients editing through the form, each checked against its
\* own last snapshot, the stored father/mother graph is acyclic after every
\* interleaving.
C26_Original == Acyclic(ancestors)

(***************************************************************************)
(* Claims about the listeners of the local-storage module (SpecLocal).     *)
(***************************************************************************)
\* C28: subscribe invokes the new callback once, with the current list;
\* every add, update, delete or seeding that wrote invokes each subscribed
\* callback exactly once, with the list as stored after the write; and a
\* callback whose unsubscribe function was called is not invoked again.
C28_ListenersNotified ==
    /\ (lastCall = "subscribe") =>
           calls = <<<<listeners[Len(listeners)], ancestors>>>>
    /\ (lastCall \in {"add", "update", "delete", "seed"}) =>
           /\ Len(calls) = Len(listeners)
           /\ \A cb \in (1..issuedCallbacks) \ unsubscribed :
                  Cardinality({i \in DOMAIN calls : calls[i] = <<cb, ancestors>>}) = 1
    /\ \A i \in DOMAIN calls : calls[i][1] \notin unsubscribed

\* Three callbacks were subscribed, the second was unsubscribed, and a
\* record added afterwards reached the first and the third.
C28_Witness ==
    /\ lastCall = "add"
    /\ issuedCallbacks = 3
    /\ unsubscribed = {2}
    /\ calls = <<<<1, ancestors>>, <<3, ancestors>>>>
    /\ Len(ancestors) = 2

(***************************************************************************)
(* Claims about the import into local storage (SpecImport).                *)
(***************************************************************************)
\* C29: after executeImport every record of the batch, under its fresh id
\* and with its links remapped, is in the list getAll() returns and was
\* handed to every subscribed listener.
C29_Original ==
    (lastCall = "import") =>
        LET first == issued - Len(snapshot) + 1
            imported == SeqToSet(finalAncestors(snapshot, first))
        IN  /\ imported \subseteq SeqToSet(getAll(ancestors))
            /\ \A cb \in SeqToSet(listeners) :
                   \E i \in DOMAIN calls :
                       calls[i][1] = cb /\ imported \subseteq SeqToSet(calls[i][2])

(***************************************************************************)
(* Claims about seeding (SpecSeed).                                        *)
(***************************************************************************)
\* C30: when every checkAndSeed invocation has returned, a store that was
\* empty holds exactly one example record, and a store that was not empty
\* holds what it held.
C30_Original ==
    (\A k \in SeedRuns : seedPc[k] = "done") =>
        IF snapshot = <<>>
        THEN Len(ancestors) = 1 /\ ancestors[1].birthYear = SeedBirthYear
        ELSE ancestors = snapshot

====
